---- MODULE Spec2Model ----
(***************************************************************************)
(* A model of irma_duo_issuer's PDF pipeline (src/extract.go):             *)
(*   verifyAndExtract = load the trust store, verifyPDF, extractAttributes *)
(* Byte buffers are sequences over a two-value alphabet, int64 is a        *)
(* two's-complement integer of IntBits bits, and the libraries the code    *)
(* calls (rsc.io/pdf, mastahyeti/cms, crypto/x509, pdf2htmlEX, soup) are   *)
(* modelled by what they hand back to the code at each call site.          *)
(***************************************************************************)
EXTENDS Integers, Sequences, FiniteSets, TLC

VARIABLES
    pc,         \* where the current verifyAndExtract call stands
    certDir,    \* the files filepath.Glob finds in certDir, or a bad pattern
    heap,       \* the byte buffers alive in the call: name -> [bytes, cap]
    doc,        \* what rsc.io/pdf reports about inputPDF (fields the code read)
    pool,       \* the x509.CertPool built by the call
    vres,       \* what verifyPDF returned (or that it panicked)
    vres2,      \* what a second verifyPDF call on the same arguments returned
    rendered,   \* the bytes pdf2htmlEX was given, and the DOM it produced
    result,     \* what verifyAndExtract returned
    ops,        \* the operations the call has performed so far, in order
    page,       \* the page extractSinglePage is walking
    elNo,       \* how many of its elements the walk has visited
    walk,       \* the walk's validPage, lastKey and rawAttributes
    pres,       \* what extractSinglePage returned
    dateArg,    \* the string handed to parseDutchDate and parseDutchMonth
    dateRes,    \* what each of the two returned for it
    flags,      \* the process-wide variables set from the command line
    tmp,        \* the files in tmpDir: name -> content
    calls,      \* the verifyAndExtract calls running side by side
    issue,      \* a request to the issue endpoint and what apiIssue made of it
    ui          \* the web page: its fields, its button, its requests in flight

vars == <<pc, certDir, heap, doc, pool, vres, vres2, rendered, result, ops,
          page, elNo, walk, pres, dateArg, dateRes, flags, tmp, calls, issue, ui>>

----------------------------------------------------------------------------
(* Bounds of the model. *)

\* longest uploaded PDF, in bytes
MaxLen == 3
\* spare capacity ioutil.ReadAll may leave behind the uploaded bytes
MaxSlack == 1
\* most files the certificate directory holds
MaxCerts == 2
\* most places in which a page differs from the well-formed page
MaxEdits == 2
\* width of the model's int64
IntBits == 4
\* most child nodes of the page container of a rendered document
MaxPages == 3
\* most tokens in a date string handed to the date parsers
MaxFields == 3
\* the largest value of Go's int in the model (2^63 - 1 in the program)
MaxGoInt == 9999
\* most attribute sets verifyAndExtract returns to the issue endpoint
MaxSets == 2
\* most requests of one kind the web page has in flight
MaxInFlight == 2

\* byte values; 0 is also what make([]byte, n) fills a new buffer with
Byte == {0, 1}

SeqsUpTo(S, n) == UNION {[1..k -> S] : k \in 0..n}

Pow2(n) == 2 ^ n
MinInt == -Pow2(IntBits - 1)
MaxInt == Pow2(IntBits - 1) - 1

\* Go's int64 addition: two's complement, wrapping
AddInt64(a, b) == ((a + b - MinInt) % Pow2(IntBits)) + MinInt

----------------------------------------------------------------------------
(* Byte buffers.  A Go slice is its bytes plus the capacity of its backing *)
(* array; s[lo:hi] is legal for 0 <= lo <= hi <= cap(s).                   *)

Buffer(bytes, cap) == [bytes |-> bytes, cap |-> cap]

\* the backing array: the bytes, then the spare capacity (zero bytes)
Backing(b) == b.bytes \o [i \in 1..(b.cap - Len(b.bytes)) |-> 0]

SliceOK(b, lo, hi) == 0 <= lo /\ lo <= hi /\ hi <= b.cap

\* s[lo:hi], capacity not tracked further: the result is only read
Slice(b, lo, hi) == SubSeq(Backing(b), lo + 1, hi)

\* make([]byte, n)
Make(n) == Buffer([i \in 1..n |-> 0], n)

\* copy(dst[lo:hi], src) for a src of hi-lo bytes
CopyInto(b, lo, hi, src) ==
    Buffer([i \in 1..Len(b.bytes) |->
               IF lo < i /\ i <= hi THEN src[i - lo] ELSE b.bytes[i]], b.cap)

Zeros(n) == [i \in 1..n |-> 0]

----------------------------------------------------------------------------
(* The certificate directory and the trust store. *)

Certs == {"duo", "other"}
CertFileKinds == Certs \cup {"corrupt"}

\* filepath.Glob(certDir + "/*.pem"): the matching files in order, or
\* ErrBadPattern
CertDirs == {[err |-> TRUE, paths |-> <<>>]} \cup
            {[err |-> FALSE, paths |-> p] : p \in SeqsUpTo(CertFileKinds, MaxCerts)}

\* loadCertificate: a file that is no PEM certificate is an error
loadCertificate(file) ==
    IF file \in Certs THEN [cert |-> file, err |-> "nil"]
    ELSE [cert |-> "nil", err |-> "failed to read PEM certificate"]

\* index of the first file that does not load, 0 if all load
FirstBad(paths) ==
    LET bad == {i \in 1..Len(paths) : loadCertificate(paths[i]).err # "nil"}
    IN IF bad = {} THEN 0 ELSE CHOOSE i \in bad : \A j \in bad : i <= j

\* a directory listing that is never found empty
NoPathsCheckSkipped(paths) == FALSE

\* lines 514-516
NoPathsCheck(paths) == Len(paths) = 0

\* lines 508-525 of verifyAndExtract: the pool, or the error that ends the call
LoadTrustStore(dir) ==
    IF dir.err THEN
        [err |-> "read certificate dir", pool |-> {}, ops |-> <<"Glob">>]
    ELSE IF NoPathsCheck(dir.paths) THEN
        [err |-> "no certificates found", pool |-> {}, ops |-> <<"Glob">>]
    ELSE LET bad == FirstBad(dir.paths)
             n == IF bad = 0 THEN Len(dir.paths) ELSE bad
         IN [err |-> IF bad = 0 THEN "nil" ELSE "load parent certificate",
             pool |-> {dir.paths[i] : i \in 1..(IF bad = 0 THEN n ELSE n - 1)},
             ops |-> <<"Glob">> \o [i \in 1..n |-> "loadCertificate"]]

----------------------------------------------------------------------------
(* The signature dictionary of a PDF, as rsc.io/pdf reports it, and the    *)
(* PKCS#7 envelope in its Contents, as mastahyeti/cms reports it.          *)

SubFilters == {"adbe.pkcs7.sha1", "adbe.pkcs7.detached", "adbe.x509.rsa_sha1"}

\* a byte string handed to or taken from the signature library: the message
\* itself, or its SHA-1 digest (crypto/sha1, collision free: the digest
\* names the message it was computed from)
Raw(m) == [hashed |-> FALSE, msg |-> m]
Sha1(m) == [hashed |-> TRUE, msg |-> m]

\* cms.ParseSignedData of Contents: not parseable, or a signature by
\* `signer` that holds over `data`; an attached envelope embeds `data` (the
\* digest of the signed bytes), a detached one does not.  The envelopes
\* with signer "nil" stand for the ones whose signer is never looked at.
NoEnvelope(kind) == [kind |-> kind, signer |-> "nil", data |-> Raw(<<>>)]
AttachedEnvelopes(msgs) ==
    {[kind |-> "attached", signer |-> s, data |-> Sha1(m)] : s \in Certs, m \in msgs}
DetachedEnvelopes(msgs) ==
    {[kind |-> "detached", signer |-> s, data |-> Raw(m)] : s \in Certs, m \in msgs}

Unread == "unread"

NoByteRange(kind) == [kind |-> kind, v |-> <<0, 0, 0, 0>>]

\* a verifySignature that trusts the envelope without comparing its data
\* with the hash found
verifySignatureNoCompare(env, pl, foundHash) ==
    IF env.kind \notin {"attached", "detached"} THEN "cms.ParseSignedData"
    ELSE IF env.kind # "attached" \/ env.signer \notin pl THEN "cms.Verify"
    ELSE "nil"

\* verifySignature (adbe.pkcs7.sha1): parse, sig.Verify against the pool,
\* sig.GetData, then the comparison with the hash of the signed ranges
verifySignature(env, pl, foundHash) ==
    IF env.kind \notin {"attached", "detached"} THEN "cms.ParseSignedData"
    ELSE IF env.kind # "attached" \/ env.signer \notin pl THEN "cms.Verify"
    ELSE IF foundHash # env.data THEN "hash doesn't match"
    ELSE "nil"

\* verifyDetachedSignature (adbe.pkcs7.detached): parse, then
\* sig.VerifyDetached of the message against the pool
verifyDetachedSignature(env, pl, msg) ==
    IF env.kind \notin {"attached", "detached"} THEN "cms.ParseSignedData"
    ELSE IF env.kind # "detached" \/ env.signer \notin pl \/ env.data # msg
         THEN "cms.VerifyDetached"
    ELSE "nil"

\* line 127: the sanity check of the byte ranges (true: the check passes)
ByteRangeSane(br, in) ==
    ~(br[1] # 0 \/ AddInt64(br[3], br[4]) # Len(in.bytes))

\* lines 172-173: trustedPDF[o0:o0+l0] must lie inside the new buffer of
\* o1+l1 bytes, or the slice expression panics
TrustedSliceOK(br) ==
    SliceOK(Make(AddInt64(br[3], br[4])), br[1], AddInt64(br[1], br[2]))

\* a trusted buffer that is the two ranges one after the other
BuildTrustedConcat(before, after, br) ==
    Buffer(before \o after, Len(before) + Len(after))

\* lines 172-174: the new buffer with the two verified ranges copied in
BuildTrusted(before, after, br) ==
    LET n == AddInt64(br[3], br[4])
    IN CopyInto(CopyInto(Make(n), br[1], AddInt64(br[1], br[2]), before),
                br[3], n, after)

\* a dispatch whose last branch is the detached verification
DispatchFallthrough(subFilter) ==
    IF subFilter = "adbe.pkcs7.sha1" THEN "sha1" ELSE "detached"

\* lines 136-163: which verification the SubFilter selects
Dispatch(subFilter) ==
    IF subFilter = "adbe.pkcs7.sha1" THEN "sha1"
    ELSE IF subFilter = "adbe.pkcs7.detached" THEN "detached"
    ELSE "unimplemented"

\* an in-place variant ("it would be more efficient to zero out the
\* untrusted parts"): the bytes outside both ranges are zeroed in inputPDF
InputZeroedInPlace(in, br) ==
    Buffer([i \in 1..Len(in.bytes) |->
               IF (br[1] < i /\ i <= AddInt64(br[1], br[2])) \/ br[3] < i
               THEN in.bytes[i] ELSE 0], in.cap)

\* verifyPDF never writes through inputPDF, before or after
InputAfterVerify(in, br) == in

\* a return of the input buffer itself
ResultIsInput == "inputPDF"

\* line 176: the buffer verifyPDF returns on success
ResultBuffer == "trustedPDF"

\* verifyPDF(inputPDF, pool) on heap h, where d is what rsc.io/pdf reports
\* about inputPDF: how the call ends, the buffer and error it returns, the
\* operations it performed and the heap it leaves
verifyPDF(h, d, pl) ==
    LET in == h.inputPDF
        Fail(e, o) == [outcome |-> "return", buf |-> "nil", err |-> e,
                       ops |-> o, heap |-> h]
        Panic(o) == [outcome |-> "panic", buf |-> "nil", err |-> "nil",
                     ops |-> o, heap |-> h]
        br == d.byteRange.v
        hi0 == AddInt64(br[1], br[2])
        hi1 == AddInt64(br[3], br[4])
        before == Slice(in, br[1], hi0)
        after == Slice(in, br[3], hi1)
        way == Dispatch(d.subFilter)
        o1 == <<"pdf.NewReader">>
        o2 == o1 \o <<"slice before">>
        o3 == o2 \o <<"slice after">>
        o4 == o3 \o (IF way = "sha1" THEN <<"sha1", "verifySignature">>
                     ELSE <<"make data", "verifyDetachedSignature">>)
        verr == IF way = "sha1"
                THEN verifySignature(d.envelope, pl, Sha1(before \o after))
                ELSE verifyDetachedSignature(d.envelope, pl, Raw(before \o after))
        o5 == (IF way = "unimplemented" THEN o3 ELSE o4) \o <<"make trustedPDF">>
        trusted == BuildTrusted(before, after, br)
    IN IF d.reader # "ok" THEN Fail("pdf.NewReader", o1)
       ELSE IF d.sig # "dict" THEN Fail("could not find signature", o1)
       ELSE IF d.contents # "string" \/ d.subFilter \notin SubFilters
            THEN Fail("could not extract signature", o1)
       ELSE IF d.byteRange.kind \in {"null", "not array", "wrong length", Unread}
            THEN Fail("could not find ByteRange", o1)
       ELSE IF d.byteRange.kind # "ints" THEN Fail("invalid ByteRange type", o1)
       ELSE IF ~ByteRangeSane(br, in)
            THEN Fail("byte ranges don't cover the entire PDF", o1)
       ELSE IF ~SliceOK(in, br[1], hi0) THEN Panic(o2)
       ELSE IF ~SliceOK(in, br[3], hi1) THEN Panic(o3)
       ELSE IF way = "unimplemented" THEN Fail("unimplemented subfilter", o3)
       ELSE IF verr # "nil" THEN Fail(verr, o4)
       ELSE IF ~TrustedSliceOK(br) THEN Panic(o5)
       ELSE [outcome |-> "return", buf |-> ResultBuffer, err |-> "nil",
             ops |-> o5 \o <<"copy before", "copy after">>,
             heap |-> [inputPDF |-> InputAfterVerify(in, br),
                       trustedPDF |-> trusted]]

----------------------------------------------------------------------------
(* The documents verifyPDF is run on.  A field the code never reads for a  *)
(* document stays Unread: the one document stands for all that agree with  *)
(* it on the fields read.                                                  *)

Inputs == {Buffer(b, Len(b) + k) : b \in SeqsUpTo(Byte, MaxLen), k \in 0..MaxSlack}

\* the ByteRange arrays of four integers tried on an input of n bytes: a
\* first range from 0 or 1, a second range from any offset (negative ones
\* and the smallest int64 too) that ends one byte short of the end, at the
\* end, or one byte past it, in int64 arithmetic.  The length of the first
\* range is read only after the sanity check of line 127 has passed: it
\* takes every value around the input's size on the arrays that pass, and
\* is 0 on the others.
ByteRangesFor(n) ==
    LET all == {<<f, 0, s, AddInt64(AddInt64(n, -s), short)>> :
                   f \in {0, 1}, s \in {MinInt, -1} \cup 0..MaxLen, short \in {-1, 0, 1}}
        sane == {v \in all : v[1] = 0 /\ AddInt64(v[3], v[4]) = n}
    IN (all \ sane)
       \cup {[v EXCEPT ![2] = len] : v \in sane, len \in -1..(MaxLen + MaxSlack)}

\* the bytes of the two ranges, as verifyPDF hands them to the verification
SignedData(in, br) ==
    Slice(in, br[1], AddInt64(br[1], br[2])) \o Slice(in, br[3], AddInt64(br[3], br[4]))

\* what the signer may have signed, for a document whose ranges hold m now:
\* m itself, m with one byte changed, m without its last byte, m with one
\* byte more
SignedVariants(m) ==
    {m, Append(m, 0)}
    \cup {[m EXCEPT ![i] = 1 - m[i]] : i \in 1..Len(m)}
    \cup (IF m = <<>> THEN {} ELSE {SubSeq(m, 1, Len(m) - 1)})

EnvelopesFor(subFilter, signed) ==
    IF subFilter = "adbe.pkcs7.sha1"
    THEN {NoEnvelope("garbage"), NoEnvelope("detached")}
         \cup AttachedEnvelopes(SignedVariants(signed))
    ELSE {NoEnvelope("garbage"), NoEnvelope("attached")}
         \cup DetachedEnvelopes(SignedVariants(signed))

BlankDoc == [of |-> <<>>, reader |-> "ok", sig |-> Unread, contents |-> Unread,
             subFilter |-> Unread, byteRange |-> NoByteRange(Unread),
             envelope |-> NoEnvelope(Unread)]

\* the pool handed to verifyPDF: the certificates of the directory's files
Pools == (SUBSET Certs) \ {{}}

ReadsEnvelope(r) ==
    \E i \in 1..Len(r.ops) : r.ops[i] \in {"verifySignature", "verifyDetachedSignature"}

DocsFor(h, pl) ==
    LET blank == [BlankDoc EXCEPT !.of = h.inputPDF.bytes]
        dict == [blank EXCEPT !.sig = "dict"]
        named == {[dict EXCEPT !.contents = "string", !.subFilter = s] : s \in SubFilters}
        ranged == {[d EXCEPT !.byteRange = [kind |-> "ints", v |-> v]] :
                      d \in named, v \in ByteRangesFor(Len(h.inputPDF.bytes))}
    IN {[blank EXCEPT !.reader = "error"], [blank EXCEPT !.sig = "null"]}
       \cup {[dict EXCEPT !.contents = c] : c \in {"null", "integer"}}
       \cup {[dict EXCEPT !.contents = "string", !.subFilter = s] : s \in {"null", "string"}}
       \cup {[d EXCEPT !.byteRange = NoByteRange(k)] :
                d \in named, k \in {"null", "not array", "wrong length", "not integers"}}
       \cup UNION {IF ReadsEnvelope(verifyPDF(h, d, pl))
                   THEN {[d EXCEPT !.envelope = e] :
                            e \in EnvelopesFor(d.subFilter,
                                               SignedData(h.inputPDF, d.byteRange.v))}
                   ELSE {d} : d \in ranged}

----------------------------------------------------------------------------
(* Text.  A string is a sequence of symbols.  A symbol of one character is *)
(* that character; a longer symbol ("Achternaam") abbreviates a run of     *)
(* letters that the code only ever compares as a whole.  Everything the    *)
(* code takes apart (dates, month names, numbers) is written character by  *)
(* character.                                                              *)

WhiteSpace == {" ", "\t"}

SetMin(S) == CHOOSE x \in S : \A y \in S : x <= y
SetMax(S) == CHOOSE x \in S : \A y \in S : y <= x

\* strings.TrimSpace
TrimSpace(s) ==
    LET keep == {i \in 1..Len(s) : s[i] \notin WhiteSpace}
    IN IF keep = {} THEN <<>> ELSE SubSeq(s, SetMin(keep), SetMax(keep))

\* strings.Fields: the maximal runs of non-space symbols
RECURSIVE FieldsFrom(_, _, _)
FieldsFrom(s, i, cur) ==
    IF i > Len(s) THEN (IF cur = <<>> THEN <<>> ELSE <<cur>>)
    ELSE IF s[i] \in WhiteSpace
         THEN (IF cur = <<>> THEN <<>> ELSE <<cur>>) \o FieldsFrom(s, i + 1, <<>>)
    ELSE FieldsFrom(s, i + 1, Append(cur, s[i]))
Fields(s) == FieldsFrom(s, 1, <<>>)

\* strings.Index: 0-based start of the first occurrence of sep, or -1
FirstIndex(s, sep) ==
    LET at == {i \in 0..(Len(s) - Len(sep)) : SubSeq(s, i + 1, i + Len(sep)) = sep}
    IN IF at = {} THEN -1 ELSE SetMin(at)

\* strings.LastIndex: 0-based start of the last occurrence of sep, or -1
LastIndex(s, sep) ==
    LET at == {i \in 0..(Len(s) - Len(sep)) : SubSeq(s, i + 1, i + Len(sep)) = sep}
    IN IF at = {} THEN -1 ELSE SetMax(at)

DigitChars == <<"0", "1", "2", "3", "4", "5", "6", "7", "8", "9">>
IsDigit(c) == \E d \in 1..10 : DigitChars[d] = c
DigitValue(c) == (CHOOSE d \in 1..10 : DigitChars[d] = c) - 1

RECURSIVE DigitsValue(_)
DigitsValue(ds) ==
    IF ds = <<>> THEN 0
    ELSE 10 * DigitsValue(SubSeq(ds, 1, Len(ds) - 1)) + DigitValue(ds[Len(ds)])

\* strconv.Atoi with its error dropped (day, _ := strconv.Atoi(...)): the
\* value of an optionally signed run of decimal digits, 0 for a token that
\* is no such run (ErrSyntax), and the nearest value of int for a run whose
\* value is out of int's range (ErrRange)
Atoi(tok) ==
    LET signed == tok # <<>> /\ tok[1] \in {"+", "-"}
        ds == IF signed THEN Tail(tok) ELSE tok
        v == IF signed /\ tok[1] = "-" THEN -DigitsValue(ds) ELSE DigitsValue(ds)
    IN IF ds = <<>> \/ \E i \in 1..Len(ds) : ~IsDigit(ds[i]) THEN 0
       ELSE IF v > MaxGoInt THEN MaxGoInt
       ELSE IF v < -MaxGoInt - 1 THEN -MaxGoInt - 1
       ELSE v

RECURSIVE Itoa(_)
Itoa(n) == IF n < 10 THEN <<DigitChars[n + 1]>>
           ELSE Itoa(n \div 10) \o <<DigitChars[(n % 10) + 1]>>

\* fmt.Sprintf("%0<w>d", n): zero padded to width w, the sign counted in
FormatPadded(n, w) ==
    LET sign == IF n < 0 THEN <<"-">> ELSE <<>>
        ds == Itoa(IF n < 0 THEN -n ELSE n)
        pad == w - Len(sign) - Len(ds)
    IN sign \o [i \in 1..(IF pad > 0 THEN pad ELSE 0) |-> "0"] \o ds

\* strings.ToLower, symbol by symbol
Capitals == <<"A", "B", "C", "D", "E", "F", "G", "H", "I", "J", "K", "L", "M",
              "N", "O", "P", "Q", "R", "S", "T", "U", "V", "W", "X", "Y", "Z">>
Smalls == <<"a", "b", "c", "d", "e", "f", "g", "h", "i", "j", "k", "l", "m",
            "n", "o", "p", "q", "r", "s", "t", "u", "v", "w", "x", "y", "z">>
LowerChar(c) ==
    IF \E i \in 1..Len(Capitals) : Capitals[i] = c
    THEN Smalls[CHOOSE i \in 1..Len(Capitals) : Capitals[i] = c]
    ELSE c
ToLower(s) == [i \in 1..Len(s) |-> LowerChar(s[i])]

\* var dutchMonths: name -> number
MonthNames == <<
    <<"j", "a", "n", "u", "a", "r", "i">>,
    <<"f", "e", "b", "r", "u", "a", "r", "i">>,
    <<"m", "a", "a", "r", "t">>,
    <<"a", "p", "r", "i", "l">>,
    <<"m", "e", "i">>,
    <<"j", "u", "n", "i">>,
    <<"j", "u", "l", "i">>,
    <<"a", "u", "g", "u", "s", "t", "u", "s">>,
    <<"s", "e", "p", "t", "e", "m", "b", "e", "r">>,
    <<"o", "k", "t", "o", "b", "e", "r">>,
    <<"n", "o", "v", "e", "m", "b", "e", "r">>,
    <<"d", "e", "c", "e", "m", "b", "e", "r">> >>

\* a table lookup that takes a name in any capitalisation
dutchMonthsAnyCase(name) ==
    IF \E m \in 1..12 : MonthNames[m] = ToLower(name)
    THEN CHOOSE m \in 1..12 : MonthNames[m] = ToLower(name)
    ELSE 0

\* dutchMonths[name]: 0 for a name that is no key
dutchMonths(name) ==
    IF \E m \in 1..12 : MonthNames[m] = name
    THEN CHOOSE m \in 1..12 : MonthNames[m] = name
    ELSE 0

\* parseDutchDate: "3 maart 1990" -> "03-03-1990", "" when it does not parse
parseDutchDate(indate) ==
    LET parts == Fields(indate)
        day == Atoi(parts[1])
        month == dutchMonths(parts[2])
        year == Atoi(parts[3])
    IN IF Len(parts) # 3 THEN <<>>
       ELSE IF day = 0 \/ month = 0 \/ year = 0 THEN <<>>
       ELSE FormatPadded(day, 2) \o <<"-">> \o FormatPadded(month, 2)
            \o <<"-">> \o FormatPadded(year, 4)

\* parseDutchMonth: "Augustus 2016" -> "01-08-2016", "" when it does not parse
parseDutchMonth(indate) ==
    LET parts == Fields(indate)
        month == dutchMonths(ToLower(parts[1]))
        year == Atoi(parts[2])
    IN IF Len(parts) # 2 THEN <<>>
       ELSE IF month = 0 \/ year = 0 THEN <<>>
       ELSE <<"0", "1", "-">> \o FormatPadded(month, 2) \o <<"-">>
            \o FormatPadded(year, 4)

----------------------------------------------------------------------------
(* The rendered document.  A page is the sequence of div elements that     *)
(* page.FindAll("div") visits, each given by its child nodes.              *)

Text(v) == [type |-> "text", value |-> v]
Elem == [type |-> "element", value |-> <<>>]

\* a label/value row: text, a separator element, text
Row(label, value) == <<Text(label), Elem, Text(value)>>
\* an element holding one text node
Single(v) == <<Text(v)>>

Marker == <<"Uittreksel", " ", "uit", " ", "het", " ", "diplomaregister">>

Achternaam == <<"Achternaam">>
Tussenvoegsel == <<"Tussenvoegsel">>
Voornamen == <<"Voorna(a)m(en)">>
Geslacht == <<"Geslacht">>
Geboortedatum == <<"Geboortedatum">>
SoortWaardedocument == <<"Soort", " ", "waardedocument">>
Opleiding == <<"Opleiding">>
AardVanHetExamen == <<"Aard", " ", "van", " ", "het", " ", "examen">>
Profiel == <<"Profiel">>
BehaaldIn == <<"Behaald", " ", "i", "n">>
BehaaldOp == <<"Behaald", " ", "op">>
Instelling == <<"Instelling">>

EmptyMap == [k \in {} |-> <<>>]
Put(m, k, v) == (k :> v) @@ m
Has(m, k) == k \in DOMAIN m

IsSingleText(children) == Len(children) = 1 /\ children[1].type = "text"

\* a continuation test that takes a line of text after any row
IsContinuationOfAnyRow(lastKey, children) ==
    lastKey # <<>> /\ IsSingleText(children)

\* line 330: is this element taken as the continuation of the last row?
IsContinuation(lastKey, children) ==
    lastKey = Instelling /\ IsSingleText(children)

\* lines 340-344: does this element carry the marker?
IsMarker(children) == IsSingleText(children) /\ children[1].value = Marker

\* lines 346-351: is this element a label/value row?
IsRow(children) ==
    Len(children) = 3 /\ children[1].type = "text" /\ children[3].type = "text"

\* a turn of the loop that keeps the value a label already has
VisitElementKeepsFirst(st, children) ==
    IF IsContinuation(st.lastKey, children) THEN
        [st EXCEPT !.rawAttributes =
            Put(@, st.lastKey,
                @[st.lastKey] \o <<" ">> \o TrimSpace(children[1].value))]
    ELSE LET valid == st.validPage \/ IsMarker(children)
         IN IF ~IsRow(children)
            THEN [st EXCEPT !.lastKey = <<>>, !.validPage = valid]
            ELSE LET key == TrimSpace(children[1].value)
                     value == TrimSpace(children[3].value)
                 IN [validPage |-> valid, lastKey |-> key,
                     rawAttributes |->
                         IF Has(st.rawAttributes, key) THEN st.rawAttributes
                         ELSE Put(st.rawAttributes, key, value)]

\* a turn of the loop that leaves lastKey alone on an element that is no row
VisitElementKeepsKey(st, children) ==
    IF IsContinuation(st.lastKey, children) THEN
        [st EXCEPT !.rawAttributes =
            Put(@, st.lastKey,
                @[st.lastKey] \o <<" ">> \o TrimSpace(children[1].value))]
    ELSE LET valid == st.validPage \/ IsMarker(children)
         IN IF ~IsRow(children)
            THEN [st EXCEPT !.validPage = valid]
            ELSE LET key == TrimSpace(children[1].value)
                     value == TrimSpace(children[3].value)
                 IN [validPage |-> valid, lastKey |-> key,
                     rawAttributes |-> Put(st.rawAttributes, key, value)]

\* lines 329-357, one turn of the loop over page.FindAll("div")
VisitElement(st, children) ==
    IF IsContinuation(st.lastKey, children) THEN
        [st EXCEPT !.rawAttributes =
            Put(@, st.lastKey,
                @[st.lastKey] \o <<" ">> \o TrimSpace(children[1].value))]
    ELSE LET valid == st.validPage \/ IsMarker(children)
         IN IF ~IsRow(children)
            THEN [st EXCEPT !.lastKey = <<>>, !.validPage = valid]
            ELSE LET key == TrimSpace(children[1].value)
                     value == TrimSpace(children[3].value)
                 IN [validPage |-> valid, lastKey |-> key,
                     rawAttributes |-> Put(st.rawAttributes, key, value)]

\* lines 325-327: the walk's state before the first element
WalkStart == [validPage |-> FALSE, lastKey |-> <<>>, rawAttributes |-> EmptyMap]

RECURSIVE WalkFrom(_, _)
WalkFrom(st, divs) ==
    IF divs = <<>> THEN st ELSE WalkFrom(VisitElement(st, Head(divs)), Tail(divs))

\* lines 392-400: the achieved date, the month-only form as fallback
AchievedDate(value) ==
    LET date == parseDutchDate(value)
    IN IF date = <<>> THEN parseDutchMonth(value) ELSE date

\* a translation that knows no gender
GenderUnknown(value) == <<"unknown">>

\* lines 371-379
GenderOf(value) ==
    IF value = <<"M", "a", "n">> THEN <<"male">>
    ELSE IF value = <<"V", "r", "o", "u", "w">> THEN <<"female">>
    ELSE <<"unknown">>

\* lines 364-414, the switch: what one raw attribute adds to attributes
TranslateOne(attributes, key, value) ==
    IF key = Achternaam THEN Put(attributes, "familyname", value)
    ELSE IF key = Tussenvoegsel THEN Put(attributes, "prefix", value)
    ELSE IF key = Voornamen THEN Put(attributes, "firstname", value)
    ELSE IF key = Geslacht THEN Put(attributes, "gender", GenderOf(value))
    ELSE IF key = Geboortedatum
         THEN Put(attributes, "dateofbirth", parseDutchDate(value))
    ELSE IF key = SoortWaardedocument THEN attributes
    ELSE IF key = Opleiding THEN Put(attributes, "education", value)
    ELSE IF key = AardVanHetExamen THEN Put(attributes, "degree", value)
    ELSE IF key = Profiel THEN Put(attributes, "profile", value)
    ELSE IF key \in {BehaaldIn, BehaaldOp}
         THEN Put(attributes, "achieved", AchievedDate(value))
    ELSE IF key = Instelling THEN
        LET in == LastIndex(value, <<" ", "i", "n", " ">>)
        IN IF in < 0 THEN attributes
           ELSE Put(Put(attributes, "institute", TrimSpace(SubSeq(value, 1, in))),
                    "city", TrimSpace(SubSeq(value, in + 5, Len(value))))
    ELSE attributes

\* lines 362-415 for one order in which range visits the keys
RECURSIVE TranslateIn(_, _, _)
TranslateIn(order, rawAttributes, attributes) ==
    IF order = <<>> THEN attributes
    ELSE TranslateIn(Tail(order), rawAttributes,
                     TranslateOne(attributes, Head(order), rawAttributes[Head(order)]))

\* Go ranges over a map in an order it does not specify.  Only keys that
\* write the same attribute can make the order show: "Behaald in" and
\* "Behaald op".  So the orders tried are the other keys (in any one
\* order), then the Behaald keys in each of their orders.
RECURSIVE AnyOrder(_)
AnyOrder(S) == IF S = {} THEN <<>>
               ELSE LET x == CHOOSE x \in S : TRUE IN <<x>> \o AnyOrder(S \ {x})

RangeOrders(rawAttributes) ==
    LET keys == DOMAIN rawAttributes
        rest == AnyOrder(keys \ {BehaaldIn, BehaaldOp})
    IN IF {BehaaldIn, BehaaldOp} \subseteq keys
       THEN {rest \o <<BehaaldIn, BehaaldOp>>, rest \o <<BehaaldOp, BehaaldIn>>}
       ELSE {rest \o AnyOrder(keys \cap {BehaaldIn, BehaaldOp})}

\* lines 421-433
RequiredKeys == {"familyname", "firstname", "gender", "dateofbirth",
                 "education", "achieved", "institute", "city"}
OptionalKeys == {"prefix", "degree", "profile"}

\* a check that also reports a required key whose value is empty
IsMissingOrEmpty(attributes, key) ==
    ~Has(attributes, key) \/ attributes[key] = <<>>

\* line 436: is this required key reported missing?
IsMissing(attributes, key) == ~Has(attributes, key)

NoError == <<>>

\* a check of the required attributes that comes before the test of
\* validPage
PageOutcomesCheckFirst(validPage, attributes) ==
    LET missing == {k \in RequiredKeys : IsMissing(attributes, k)}
    IN IF missing # {}
       THEN {[isNil |-> TRUE, attributes |-> EmptyMap,
              err |-> <<"cannot find attribute", k>>] : k \in missing}
       ELSE IF ~validPage
       THEN {[isNil |-> TRUE, attributes |-> EmptyMap, err |-> NoError]}
       ELSE {[isNil |-> FALSE, attributes |-> attributes, err |-> NoError]}

\* lines 417-441: what extractSinglePage returns for a walked page and its
\* translated attributes; the loop over requiredAttributes reports whichever
\* missing key it meets first
PageOutcomes(validPage, attributes) ==
    LET missing == {k \in RequiredKeys : IsMissing(attributes, k)}
    IN IF ~validPage
       THEN {[isNil |-> TRUE, attributes |-> EmptyMap, err |-> NoError]}
       ELSE IF missing # {}
       THEN {[isNil |-> TRUE, attributes |-> EmptyMap,
              err |-> <<"cannot find attribute", k>>] : k \in missing}
       ELSE {[isNil |-> FALSE, attributes |-> attributes, err |-> NoError]}

\* extractSinglePage: every result the call can give for the page
extractSinglePage(divs) ==
    LET st == WalkFrom(WalkStart, divs)
    IN UNION {PageOutcomes(st.validPage, TranslateIn(o, st.rawAttributes, EmptyMap)) :
                 o \in RangeOrders(st.rawAttributes)}

----------------------------------------------------------------------------
(* extractAttributes: the temporary files, pdf2htmlEX, and the pages of    *)
(* the page container.  A rendered document is the children of <body>,     *)
(* each with its id and its child nodes; a child node of the container is  *)
(* a page element (with its divs) or a text node.                          *)

BodyChild(id, children) == [id |-> id, children |-> children]
PageElement(divs) == [type |-> "element", divs |-> divs]
TextNode == [type |-> "text", divs |-> <<>>]

NoResult == [outcome |-> "none", isNil |-> TRUE, attributeSet |-> <<>>, err |-> NoError]

\* a failure that hands back a set next to the error
FailedWithSet(err) ==
    [outcome |-> "return", isNil |-> FALSE, attributeSet |-> <<EmptyMap>>, err |-> err]

\* return nil, err
Failed(err) == [outcome |-> "return", isNil |-> TRUE, attributeSet |-> <<>>, err |-> err]
Succeeded(sets) == [outcome |-> "return", isNil |-> FALSE, attributeSet |-> sets, err |-> NoError]
Panicked == [outcome |-> "panic", isNil |-> TRUE, attributeSet |-> <<>>, err |-> NoError]

\* a search that takes the last child of <body> with the id
FindLastContainer(body) ==
    LET hits == {i \in 1..Len(body) : body[i].id = "page-container"}
    IN IF hits = {} THEN 0 ELSE SetMax(hits)

\* lines 296-302: index of the first child of <body> with id
\* "page-container", 0 if there is none
FindContainer(body) ==
    LET hits == {i \in 1..Len(body) : body[i].id = "page-container"}
    IN IF hits = {} THEN 0 ELSE SetMin(hits)

\* a loop that puts each page's attributes in front of the ones it has
AfterPageReversed(r, rest) ==
    IF r.err # NoError THEN Failed(r.err)
    ELSE IF rest.err # NoError THEN rest
    ELSE Succeeded(rest.attributeSet \o (IF r.isNil THEN <<>> ELSE <<r.attributes>>))

\* a loop that goes on to the next page when a page fails
AfterPageSkipsFailed(r, rest) ==
    IF r.err # NoError THEN rest
    ELSE IF rest.err # NoError THEN rest
    ELSE Succeeded((IF r.isNil THEN <<>> ELSE <<r.attributes>>) \o rest.attributeSet)

\* lines 312-319: what the loop does with one page's result, given the
\* results of the pages after it
AfterPage(r, rest) ==
    IF r.err # NoError THEN Failed(r.err)
    ELSE IF rest.err # NoError THEN rest
    ELSE Succeeded((IF r.isNil THEN <<>> ELSE <<r.attributes>>) \o rest.attributeSet)

\* lines 307-321: every result the loop over the container's children can
\* give
RECURSIVE ExtractPages(_)
ExtractPages(nodes) ==
    IF nodes = <<>> THEN {Succeeded(<<>>)}
    ELSE IF Head(nodes).type # "element" THEN ExtractPages(Tail(nodes))
    ELSE {AfterPage(r, rest) :
             r \in extractSinglePage(Head(nodes).divs), rest \in ExtractPages(Tail(nodes))}

\* lines 289-321: from the HTML pdf2htmlEX wrote to the attribute sets
ExtractFromHTML(body) ==
    LET c == FindContainer(body)
    IN IF c = 0 THEN {Failed(<<"cannot parse HTML: cannot find page container">>)}
       ELSE ExtractPages(body[c].children)

\* lines 245-287: the steps before the HTML is parsed, each of which can
\* fail on its own
IOSteps == <<"TempFile infile", "TempFile outfile", "Write", "Close",
             "run pdf2htmlEX", "ReadAll">>

\* extractAttributes(pdfData) when step `fails` of IOSteps fails (0: none
\* does) and pdf2htmlEX writes `body`: the results it can give, each with
\* the operations performed
extractAttributes(fails, body) ==
    IF fails # 0
    THEN {[res |-> Failed(<<IOSteps[fails]>>), ops |-> SubSeq(IOSteps, 1, fails)]}
    ELSE {[res |-> r, ops |-> IOSteps \o <<"HTMLParse">>] : r \in ExtractFromHTML(body)}

----------------------------------------------------------------------------
(* The pages tried: the well-formed diploma page, changed in at most       *)
(* MaxEdits places.                                                        *)

Man == <<"M", "a", "n">>
Date1990 == <<"3", " ", "m", "a", "a", "r", "t", " ", "1", "9", "9", "0">>
Month2016 == <<"A", "u", "g", "u", "s", "t", "u", "s", " ", "2", "0", "1", "6">>
HogeschoolX == <<"Hogeschool", " ", "X", " ", "i", "n", " ", "AMSTERDAM">>

BasePage == <<
    Single(Marker),
    Row(Achternaam, <<"Jansen">>),
    Row(Voornamen, <<"J", "a", "n">>),
    Row(Geslacht, Man),
    Row(Geboortedatum, Date1990),
    Row(Opleiding, <<"HBO">>),
    Row(BehaaldIn, Month2016),
    Row(Instelling, HogeschoolX) >>

\* elements a page may hold besides its own: a line of text, the marker,
\* an element without text, and rows with labels the page has or lacks
InsertElements == {
    Single(<<" ", "Z">>),
    Single(Marker),
    <<Elem>>,
    Row(BehaaldOp, Date1990),
    Row(<<" ">> \o Achternaam, <<"Smit", " ">>),
    Row(Geslacht, <<"V", "r", "o", "u", "w">>),
    Row(Geboortedatum, Month2016),
    Row(Tussenvoegsel, <<"van">>) }

\* values a row may hold instead of its own: nothing, text that is neither
\* a date nor "<name> in <city>", and text with " in " twice
OtherValues == {<<>>, <<"x">>,
                <<"A", " ", "i", "n", " ", "B", " ", "i", "n", " ", "C">>}

\* the edits of pages of up to so many elements
EditsUpTo(len) ==
    {[op |-> "delete", at |-> i, el |-> <<>>, v |-> <<>>] : i \in 1..len}
    \cup {[op |-> "insert", at |-> i, el |-> e, v |-> <<>>] :
             i \in 0..len, e \in InsertElements}
    \cup {[op |-> "value", at |-> i, el |-> <<>>, v |-> v] :
             i \in 1..len, v \in OtherValues}

\* the edits made to a page: an element is deleted, an element is put at
\* the front, in the middle or at the end, a row is given another value
Applies(p, e) ==
    IF e.op = "delete" THEN e.at \in 1..Len(p)
    ELSE IF e.op = "insert" THEN e.at \in {0, Len(p) \div 2, Len(p)}
    ELSE e.at \in 1..Len(p) /\ IsRow(p[e.at])

Edits(p) == {e \in EditsUpTo(Len(p)) : Applies(p, e)}

ApplyEdit(p, e) ==
    IF e.op = "delete" THEN SubSeq(p, 1, e.at - 1) \o SubSeq(p, e.at + 1, Len(p))
    ELSE IF e.op = "insert"
         THEN SubSeq(p, 1, e.at) \o <<e.el>> \o SubSeq(p, e.at + 1, Len(p))
    ELSE [p EXCEPT ![e.at] = Row(p[e.at][1].value, e.v)]

RECURSIVE PagesWithin(_)
PagesWithin(n) ==
    IF n = 0 THEN {BasePage}
    ELSE LET less == PagesWithin(n - 1)
         IN less \cup {IF Applies(p, e) THEN ApplyEdit(p, e) ELSE p :
                          p \in less, e \in EditsUpTo(Len(BasePage) + n - 1)}

Pages == PagesWithin(MaxEdits)

----------------------------------------------------------------------------
(* Initial values of the variables a specification does not use. *)

NoCertDir == [err |-> FALSE, paths |-> <<>>]
NoVerify == [outcome |-> "none", buf |-> "nil", err |-> "nil", bytes |-> <<>>]
NoRender == [ran |-> FALSE, arg |-> "nil", bytes |-> <<>>, body |-> <<>>]
NoPageResult == [isNil |-> TRUE, attributes |-> EmptyMap, err |-> NoError]

PipelineIdle ==
    /\ heap = <<>> /\ doc = BlankDoc /\ pool = {}
    /\ vres = NoVerify /\ vres2 = NoVerify /\ rendered = NoRender
    /\ result = NoResult /\ ops = <<>>

\* no date string parsed yet
NotParsed == <<"?">>
NoDates == [date |-> NotParsed, month |-> NotParsed]
DateIdle == dateArg = <<>> /\ dateRes = NoDates

\* no request to the web server, no web page
WebIdle == issue = <<>> /\ ui = <<>>

\* no call running side by side with another
CallsIdle ==
    /\ flags = [keepOutput |-> FALSE, enableDebug |-> FALSE]
    /\ tmp = <<>> /\ calls = <<>>
    /\ WebIdle

WalkIdle == page = <<>> /\ elNo = 0 /\ walk = WalkStart /\ pres = NoPageResult

PageIdle == WalkIdle /\ DateIdle /\ CallsIdle

walkVars == <<page, elNo, walk, pres>>
dateVars == <<dateArg, dateRes>>
webVars == <<issue, ui>>
callVars == <<flags, tmp, calls, webVars>>

pipelineVars == <<certDir, heap, doc, pool, vres, vres2, rendered, result, ops>>
pageVars == <<walkVars, dateVars, callVars>>

----------------------------------------------------------------------------
(* SpecPage: extractSinglePage on one page, element by element. *)

InitPage ==
    /\ pc = "walking" /\ certDir = NoCertDir /\ PipelineIdle
    /\ page \in Pages /\ elNo = 0 /\ walk = WalkStart /\ pres = NoPageResult
    /\ DateIdle /\ CallsIdle

\* one turn of the loop of lines 328-358
VisitNext ==
    /\ pc = "walking" /\ elNo < Len(page)
    /\ walk' = VisitElement(walk, page[elNo + 1])
    /\ elNo' = elNo + 1
    /\ UNCHANGED <<pc, page, pres, dateVars, callVars, pipelineVars>>

\* lines 360-441: translate, check, return
FinishPage ==
    /\ pc = "walking" /\ elNo = Len(page)
    /\ \E o \in RangeOrders(walk.rawAttributes) :
         \E r \in PageOutcomes(walk.validPage,
                               TranslateIn(o, walk.rawAttributes, EmptyMap)) :
            pres' = r
    /\ pc' = "page done"
    /\ UNCHANGED <<page, elNo, walk, dateVars, callVars, pipelineVars>>

NextPage == VisitNext \/ FinishPage

SpecPage == InitPage /\ [][NextPage]_vars

----------------------------------------------------------------------------
(* SpecVerify: verifyPDF on one input and one trust store, called once and *)
(* then once more on the same arguments.                                   *)

\* what a verifyPDF call leaves in vres
Returned(r) ==
    [outcome |-> r.outcome, buf |-> r.buf, err |-> r.err,
     bytes |-> IF r.buf = "nil" THEN <<>> ELSE r.heap[r.buf].bytes]

InitVerify ==
    /\ pc = "call" /\ certDir = NoCertDir /\ PageIdle
    /\ heap \in {[inputPDF |-> in] : in \in Inputs}
    /\ pool \in Pools
    /\ doc = BlankDoc /\ vres = NoVerify /\ vres2 = NoVerify
    /\ rendered = NoRender /\ result = NoResult /\ ops = <<>>

\* verifyPDF(inputPDF, pool)
VerifyOnce ==
    /\ pc = "call"
    /\ \E d \in DocsFor(heap, pool) :
         LET r == verifyPDF(heap, d, pool)
         IN /\ doc' = d
            /\ vres' = Returned(r)
            /\ heap' = r.heap
            /\ ops' = r.ops
    /\ pc' = "called"
    /\ UNCHANGED <<certDir, pool, vres2, rendered, result, pageVars>>

\* verifyPDF(inputPDF, pool) again.  rsc.io/pdf reports the same document
\* as long as inputPDF holds the same bytes, and any document if it does not
VerifyAgain ==
    /\ pc = "called"
    /\ \E d \in (IF heap.inputPDF.bytes = doc.of THEN {doc} ELSE DocsFor(heap, pool)) :
         LET r == verifyPDF(heap, d, pool)
         IN /\ vres2' = Returned(r)
            /\ heap' = r.heap
    /\ pc' = "twice"
    /\ UNCHANGED <<certDir, pool, doc, vres, rendered, result, ops, pageVars>>

NextVerify == VerifyOnce \/ VerifyAgain

SpecVerify == InitVerify /\ [][NextVerify]_vars

----------------------------------------------------------------------------
(* Spec: verifyAndExtract, call after call.  The claims about it do not    *)
(* look at byte values, so the inputs are one per length; the rendered     *)
(* documents are a few with and without container, pages and attributes.   *)

PipelineInputs == {Buffer([i \in 1..n |-> 1], n + MaxSlack) : n \in 0..MaxLen}

UnmarkedPage == Tail(BasePage)
NoBirthDatePage == SubSeq(BasePage, 1, 4) \o SubSeq(BasePage, 6, Len(BasePage))

Bodies == {
    <<BodyChild("sidebar", <<>>)>>,
    <<BodyChild("sidebar", <<>>), BodyChild("page-container", <<>>)>>,
    <<BodyChild("page-container", <<PageElement(BasePage)>>)>>,
    <<BodyChild("page-container",
                <<PageElement(BasePage), TextNode, PageElement(UnmarkedPage)>>)>>,
    <<BodyChild("page-container",
                <<PageElement(BasePage), PageElement(NoBirthDatePage)>>)>> }

Init ==
    /\ pc = "idle" /\ certDir \in CertDirs /\ PipelineIdle /\ PageIdle

\* verifyAndExtract(pdfData) is called
Call ==
    /\ pc = "idle"
    /\ \E in \in PipelineInputs : heap' = [inputPDF |-> in]
    /\ pc' = "load"
    /\ UNCHANGED <<certDir, doc, pool, vres, vres2, rendered, result, ops, pageVars>>

\* lines 508-525
LoadCertificates ==
    /\ pc = "load"
    /\ LET l == LoadTrustStore(certDir)
       IN /\ pool' = l.pool
          /\ ops' = l.ops
          /\ result' = IF l.err = "nil" THEN result ELSE Failed(<<l.err>>)
          /\ pc' = IF l.err = "nil" THEN "verify" ELSE "done"
    /\ UNCHANGED <<certDir, heap, doc, vres, vres2, rendered, pageVars>>

\* lines 527-530
AfterVerify(r) ==
    IF r.outcome = "panic" THEN Panicked
    ELSE IF r.err # "nil" THEN Failed(<<"verify PDF", r.err>>)
    ELSE NoResult

Verify ==
    /\ pc = "verify"
    /\ \E d \in DocsFor(heap, pool) :
         LET r == verifyPDF(heap, d, pool)
         IN /\ doc' = d
            /\ vres' = Returned(r)
            /\ heap' = r.heap
            /\ ops' = ops \o <<"verifyPDF">> \o r.ops
            /\ result' = AfterVerify(r)
            /\ pc' = IF AfterVerify(r) = NoResult THEN "extract" ELSE "done"
    /\ UNCHANGED <<certDir, pool, vres2, rendered, pageVars>>

\* an extraction run on the bytes as uploaded
ExtractArgRaw(v) == "inputPDF"

\* line 532: the buffer handed to extractAttributes
ExtractArg(v) == v.buf

\* lines 532-538
AfterExtract(x) ==
    IF x.err # NoError THEN Failed(<<"extract attributes">> \o x.err) ELSE x

Extract ==
    /\ pc = "extract"
    /\ \E fails \in 0..Len(IOSteps) :
         \E body \in (IF fails = 0 THEN Bodies ELSE {<<>>}) :
            \E x \in extractAttributes(fails, body) :
               LET arg == ExtractArg(vres)
               IN /\ rendered' = [ran |-> fails = 0 \/ fails >= 5, arg |-> arg,
                                  bytes |-> IF fails = 0 \/ fails >= 3
                                            THEN heap[arg].bytes ELSE <<>>,
                                  body |-> body]
                  /\ result' = AfterExtract(x.res)
                  /\ ops' = ops \o <<"extractAttributes">> \o x.ops
    /\ pc' = "done"
    /\ UNCHANGED <<certDir, heap, doc, pool, vres, vres2, pageVars>>

\* the call is over; nothing of it stays behind
NextCall ==
    /\ pc = "done"
    /\ pc' = "idle"
    /\ heap' = <<>> /\ doc' = BlankDoc /\ pool' = {}
    /\ vres' = NoVerify /\ rendered' = NoRender /\ result' = NoResult /\ ops' = <<>>
    /\ UNCHANGED <<certDir, vres2, pageVars>>

Next == Call \/ LoadCertificates \/ Verify \/ Extract \/ NextCall

Spec == Init /\ [][Next]_vars

----------------------------------------------------------------------------
(* SpecBatch: the part of extractAttributes that turns the rendered HTML   *)
(* into attribute sets, on documents of up to MaxPages container children. *)

SmitPage == [BasePage EXCEPT ![2] = Row(Achternaam, <<"Smit">>)]
UnmarkedPartialPage == Tail(NoBirthDatePage)
NoCityPage == [BasePage EXCEPT ![8] = Row(Instelling, <<"x">>)]
\* the marker as the last element, directly after the Instelling row, on a
\* page without birth date
LateMarkerPage == Tail(NoBirthDatePage) \o <<Single(Marker)>>

\* the child nodes a page container may hold
BatchNodes == {TextNode} \cup
    {PageElement(p) : p \in {BasePage, SmitPage, UnmarkedPage, UnmarkedPartialPage,
                             NoBirthDatePage, NoCityPage, LateMarkerPage}}

BatchBodies ==
    {<<BodyChild("sidebar", <<>>)>>}
    \cup {<<BodyChild("sidebar", <<>>), BodyChild("page-container", nodes)>> :
             nodes \in SeqsUpTo(BatchNodes, MaxPages)}
    \cup {<<BodyChild("page-container", <<first>>), BodyChild("sidebar", <<>>),
            BodyChild("page-container", <<second>>)>> :
             first \in BatchNodes, second \in BatchNodes}

InitBatch ==
    /\ pc = "html" /\ certDir = NoCertDir /\ PageIdle
    /\ heap = <<>> /\ doc = BlankDoc /\ pool = {}
    /\ vres = NoVerify /\ vres2 = NoVerify
    /\ \E body \in BatchBodies : rendered = [NoRender EXCEPT !.ran = TRUE, !.body = body]
    /\ result = NoResult /\ ops = <<>>

\* lines 291-305: parse the HTML and look for the page container
FindPages ==
    /\ pc = "html"
    /\ ops' = ops \o <<"HTMLParse">>
    /\ IF FindContainer(rendered.body) = 0
       THEN /\ result' = Failed(<<"cannot parse HTML: cannot find page container">>)
            /\ pc' = "batch done"
       ELSE /\ result' = result
            /\ pc' = "pages"
    /\ UNCHANGED <<certDir, heap, doc, pool, vres, vres2, rendered, pageVars>>

\* lines 307-321: the loop over the container's children, and the return
ExtractBatch ==
    /\ pc = "pages"
    /\ \E r \in ExtractFromHTML(rendered.body) : result' = r
    /\ pc' = "batch done"
    /\ UNCHANGED <<certDir, heap, doc, pool, vres, vres2, rendered, ops, pageVars>>

NextBatch == FindPages \/ ExtractBatch

SpecBatch == InitBatch /\ [][NextBatch]_vars

----------------------------------------------------------------------------
(* SpecDates: parseDutchDate and parseDutchMonth on strings of up to       *)
(* MaxFields tokens.                                                       *)

\* the tokens of a date string: numbers (zero, signed, of three digits,
\* above int's range), month names in both capitalisations, other text
DateTokens == {
    <<"3">>, <<"0">>, <<"-", "5">>, <<"1", "2", "3">>, <<"1", "9", "9", "0">>,
    <<"9", "9", "9", "9", "9">>,
    <<"m", "a", "a", "r", "t">>, <<"M", "a", "a", "r", "t">>,
    <<"A", "u", "g", "u", "s", "t", "u", "s">>, <<"x">> }

RECURSIVE JoinWith(_, _)
JoinWith(tokens, sep) ==
    IF tokens = <<>> THEN <<>>
    ELSE IF Len(tokens) = 1 THEN tokens[1]
    ELSE tokens[1] \o sep \o JoinWith(Tail(tokens), sep)

\* the tokens separated by one blank, or by more white space and with
\* white space around
DateInputs ==
    UNION {{JoinWith(ts, <<" ">>), <<" ">> \o JoinWith(ts, <<" ", "\t">>) \o <<" ">>} :
              ts \in SeqsUpTo(DateTokens, MaxFields)}

InitDates ==
    /\ pc = "dates" /\ certDir = NoCertDir /\ PipelineIdle
    /\ WalkIdle /\ CallsIdle
    /\ dateArg \in DateInputs /\ dateRes = NoDates

\* parseDutchDate on the string
CallParseDutchDate ==
    /\ pc = "dates" /\ dateRes.date = NotParsed
    /\ dateRes' = [dateRes EXCEPT !.date = parseDutchDate(dateArg)]
    /\ UNCHANGED <<pc, pipelineVars, walkVars, callVars, dateArg>>

\* parseDutchMonth on the string
CallParseDutchMonth ==
    /\ pc = "dates" /\ dateRes.month = NotParsed
    /\ dateRes' = [dateRes EXCEPT !.month = parseDutchMonth(dateArg)]
    /\ UNCHANGED <<pc, pipelineVars, walkVars, callVars, dateArg>>

NextDates == CallParseDutchDate \/ CallParseDutchMonth

SpecDates == InitDates /\ [][NextDates]_vars

----------------------------------------------------------------------------
(* SpecCalls: two verifyAndExtract calls run side by side, as the HTTP     *)
(* server runs one per request.  What a call computes is modelled above;   *)
(* here a call's data is symbolic (the upload it was given, and what was   *)
(* made of it), and its steps are the ones that touch what the calls       *)
(* share: the process-wide variables and the files in tmpDir.              *)

Procs == {"first", "second"}
Uploads == {"A", "B"}

\* the names ioutil.TempFile can give a file with this prefix
TempNames(prefix) == {<<prefix, "1">>, <<prefix, "2">>}

\* a TempFile that may pick a name that is in use
AnyName(prefix, files) == TempNames(prefix)

\* ioutil.TempFile(tmpDir, prefix): a name no file in tmpDir has (the file
\* is created with O_EXCL)
FreshNames(prefix, files) == TempNames(prefix) \ DOMAIN files

\* what verifyPDF, pdf2htmlEX and the extractor make of their input
TrustedOf(pdfData) == <<"trusted", pdfData>>
RenderOf(content) == <<"html", content>>
AttributesOf(html) == <<"attributes", html>>

NoFile == <<"none", "0">>
NoData == <<"nothing">>

IdleCall == [at |-> "idle", pdfData |-> NoData, keepOutput |-> FALSE,
             pool |-> {}, verified |-> NoData,
             infile |-> NoFile, outfile |-> NoFile, html |-> NoData,
             result |-> NoData]

Remove(files, names) == [n \in DOMAIN files \ names |-> files[n]]

InitCalls ==
    /\ pc = "calls" /\ PipelineIdle /\ WalkIdle /\ DateIdle
    /\ certDir = [err |-> FALSE, paths |-> <<"duo">>]
    /\ flags \in [keepOutput : BOOLEAN, enableDebug : {FALSE}]
    /\ tmp = <<>>
    /\ calls = [p \in Procs |-> IdleCall]
    /\ WebIdle

\* verifyAndExtract(pdfData) is called; lines 508-530: the call's own pool
\* from certDir, and verifyPDF
StartCall(p) ==
    /\ calls[p].at = "idle"
    /\ \E u \in Uploads :
         calls' = [calls EXCEPT ![p] =
                      [@ EXCEPT !.at = "verified", !.pdfData = u,
                                !.pool = LoadTrustStore(certDir).pool,
                                !.verified = TrustedOf(u)]]
    /\ UNCHANGED <<flags, tmp, pc, pipelineVars, walkVars, dateVars, webVars>>

\* lines 245-252: the input file, and the deferred removal decided on
CreateInfile(p) ==
    /\ calls[p].at = "verified"
    /\ \E n \in FreshNames("duo-verified-pdf-", tmp) :
         /\ tmp' = Put(tmp, n, NoData)
         /\ calls' = [calls EXCEPT ![p] =
                          [@ EXCEPT !.at = "infile", !.infile = n,
                                    !.keepOutput = flags.keepOutput]]
    /\ UNCHANGED <<flags, pc, pipelineVars, walkVars, dateVars, webVars>>

\* lines 253-260
CreateOutfile(p) ==
    /\ calls[p].at = "infile"
    /\ \E n \in FreshNames("duo-verified-html-", tmp) :
         /\ tmp' = Put(tmp, n, NoData)
         /\ calls' = [calls EXCEPT ![p] = [@ EXCEPT !.at = "outfile", !.outfile = n]]
    /\ UNCHANGED <<flags, pc, pipelineVars, walkVars, dateVars, webVars>>

\* lines 262-269
WriteInfile(p) ==
    /\ calls[p].at = "outfile"
    /\ tmp' = Put(tmp, calls[p].infile, calls[p].verified)
    /\ calls' = [calls EXCEPT ![p] = [@ EXCEPT !.at = "written"]]
    /\ UNCHANGED <<flags, pc, pipelineVars, walkVars, dateVars, webVars>>

\* lines 271-282: pdf2htmlEX reads the one file and writes the other, both
\* by name
RunPdf2htmlEX(p) ==
    /\ calls[p].at = "written"
    /\ tmp' = Put(tmp, calls[p].outfile, RenderOf(tmp[calls[p].infile]))
    /\ calls' = [calls EXCEPT ![p] = [@ EXCEPT !.at = "rendered"]]
    /\ UNCHANGED <<flags, pc, pipelineVars, walkVars, dateVars, webVars>>

\* lines 284-321
ReadOutfile(p) ==
    /\ calls[p].at = "rendered"
    /\ calls' = [calls EXCEPT ![p] =
                     [@ EXCEPT !.at = "read", !.html = tmp[calls[p].outfile],
                               !.result = AttributesOf(tmp[calls[p].outfile])]]
    /\ UNCHANGED <<flags, tmp, pc, pipelineVars, walkVars, dateVars, webVars>>

\* the return, with the deferred os.Remove of both files unless keepOutput
ReturnCall(p) ==
    /\ calls[p].at = "read"
    /\ tmp' = IF calls[p].keepOutput THEN tmp
              ELSE Remove(tmp, {calls[p].infile, calls[p].outfile})
    /\ calls' = [calls EXCEPT ![p] = [@ EXCEPT !.at = "returned"]]
    /\ UNCHANGED <<flags, pc, pipelineVars, walkVars, dateVars, webVars>>

NextCalls ==
    \E p \in Procs :
        \/ StartCall(p) \/ CreateInfile(p) \/ CreateOutfile(p) \/ WriteInfile(p)
        \/ RunPdf2htmlEX(p) \/ ReadOutfile(p) \/ ReturnCall(p)

SpecCalls == InitCalls /\ [][NextCalls]_vars

----------------------------------------------------------------------------
(* SpecIssue: one request to the issue endpoint.  The handler apiIssue     *)
(* runs from the method check to the response; what it reads on the way    *)
(* (the disclosure JWT, the upload, what verifyAndExtract returns for the  *)
(* upload, the signing key) is chosen when the handler reads it.           *)

\* a *string: nil, or a pointer to s
NilString == [isNil |-> TRUE, s |-> <<>>]
PointerTo(s) == [isNil |-> FALSE, s |-> s]

\* Go's map index: the zero value for a key the map lacks
Index(m, k) == IF Has(m, k) THEN m[k] ELSE <<>>

\* getAttribute(attributes, identifiers): the "nl" text of the first of the
\* identifiers that the disclosed attributes hold, nil when they hold none
RECURSIVE getAttribute(_, _)
getAttribute(attributes, identifiers) ==
    IF identifiers = <<>> THEN NilString
    ELSE IF Has(attributes, Head(identifiers))
         THEN PointerTo(attributes[Head(identifiers)])
    ELSE getAttribute(attributes, Tail(identifiers))

\* the identifiers config names for the three disclosed attributes
InitialsAttributes == <<"idin.initials">>
FamilyNameAttributes == <<"idin.familyname", "surfnet.familyname">>
DateOfBirthAttributes == <<"idin.dateofbirth">>

\* the attributes a verified disclosure JWT can hold: any of the three may
\* be lacking, the initials may be the empty string
Disclosures ==
    {d \in UNION {[ids -> {<<>>, <<"J">>, <<"P">>, <<"Jansen">>,
                            <<"van", " ", "Jansen">>, Date1990}] :
                     ids \in SUBSET {"idin.initials", "idin.familyname",
                                     "surfnet.familyname", "idin.dateofbirth"}} :
        /\ Has(d, "idin.initials") => d["idin.initials"] \in {<<>>, <<"J">>, <<"P">>}
        /\ Has(d, "idin.familyname")
              => d["idin.familyname"] \in {<<"Jansen">>, <<"van", " ", "Jansen">>}
        /\ Has(d, "surfnet.familyname") => d["surfnet.familyname"] = <<"Jansen">>
        /\ Has(d, "idin.dateofbirth") => d["idin.dateofbirth"] \in {<<"J">>, Date1990}}

\* what irma.ParseDisclosureJwt makes of the form value "attributes"
DisclosureJwts ==
    {[err |-> e, attributes |-> <<>>] : e \in {"malformed", "expired"}}
    \cup {[err |-> "nil", attributes |-> d] : d \in Disclosures}

\* attribute sets verifyAndExtract can return: with and without prefix,
\* with an empty firstname, with another date of birth
IssueSet(prefix, firstname, dateofbirth) ==
    [k \in {"familyname", "firstname", "dateofbirth"} \cup
            (IF prefix = <<>> THEN {} ELSE {"prefix"}) |->
        IF k = "familyname" THEN <<"Jansen">>
        ELSE IF k = "firstname" THEN firstname
        ELSE IF k = "dateofbirth" THEN dateofbirth
        ELSE prefix]

IssueSets == {IssueSet(<<>>, <<"J", "a", "n">>, Date1990),
              IssueSet(<<"van">>, <<"J", "a", "n">>, Date1990),
              IssueSet(<<>>, <<>>, Date1990),
              IssueSet(<<>>, <<"J", "a", "n">>, <<>>)}

\* lines 153-170: the loop that compares every attribute set with the
\* disclosed attributes; "" when all match, the error code sent otherwise,
\* "panic" when a nil pointer is dereferenced
RECURSIVE MatchSets(_, _, _, _)
MatchSets(attributeSets, disclosedInitials, disclosedFamilyname, disclosedDateOfBirth) ==
    IF attributeSets = <<>> THEN ""
    ELSE LET attributes == Head(attributeSets)
             familyname == IF Index(attributes, "prefix") # <<>>
                           THEN Index(attributes, "prefix") \o <<" ">>
                                    \o Index(attributes, "familyname")
                           ELSE Index(attributes, "familyname")
         IN IF Len(Index(attributes, "firstname")) = 0 THEN "no-initials"
            ELSE IF disclosedInitials.isNil THEN "panic"
            ELSE IF Len(disclosedInitials.s) = 0 THEN "no-initials"
            ELSE IF disclosedFamilyname.isNil THEN "panic"
            ELSE IF familyname # disclosedFamilyname.s
                    \/ Index(attributes, "firstname")[1] # disclosedInitials.s[1]
                 THEN "name-match"
            ELSE IF disclosedDateOfBirth.isNil THEN "panic"
            ELSE IF Index(attributes, "dateofbirth") # disclosedDateOfBirth.s
                 THEN "dateofbirth-match"
            ELSE MatchSets(Tail(attributeSets), disclosedInitials,
                           disclosedFamilyname, disclosedDateOfBirth)

NoDisclosure == [initials |-> NilString, familyname |-> NilString,
                 dateofbirth |-> NilString]

NewIssue == [at |-> "request", parsed |-> FALSE, disclosed |-> <<>>,
             initials |-> NilString, familyname |-> NilString,
             dateofbirth |-> NilString,
             extracted |-> FALSE, attributeSets |-> <<>>,
             written |-> <<>>, signed |-> <<>>, panicked |-> FALSE]

\* sendErrorResponse(w, httpCode, errorCode) and the return after it
SendError(errorCode) ==
    [issue EXCEPT !.at = "done", !.written = @ \o <<<<"error:", errorCode>>>>]

InitIssue ==
    /\ pc = "issue" /\ certDir = NoCertDir /\ PipelineIdle
    /\ WalkIdle /\ DateIdle
    /\ flags = [keepOutput |-> FALSE, enableDebug |-> FALSE]
    /\ tmp = <<>> /\ calls = <<>> /\ ui = <<>>
    /\ issue = NewIssue

\* lines 99-125: the method, the API server's key, the disclosure JWT and
\* the three attributes taken from it
ParseDisclosure ==
    /\ pc = "issue" /\ issue.at = "request"
    /\ \E method \in {"POST", "GET"}, keyRead \in BOOLEAN, jwt \in DisclosureJwts :
         issue' =
            IF method # "POST" THEN SendError("invalid-method")
            ELSE IF ~keyRead THEN SendError("attributes")
            ELSE IF jwt.err = "expired" THEN SendError("attributes-expired")
            ELSE IF jwt.err # "nil" THEN SendError("attributes")
            ELSE [issue EXCEPT
                    !.at = "upload", !.parsed = TRUE, !.disclosed = jwt.attributes,
                    !.initials = getAttribute(jwt.attributes, InitialsAttributes),
                    !.familyname = getAttribute(jwt.attributes, FamilyNameAttributes),
                    !.dateofbirth = getAttribute(jwt.attributes, DateOfBirthAttributes)]
    /\ UNCHANGED <<pc, pipelineVars, walkVars, dateVars, flags, tmp, calls, ui>>

\* lines 129-144: the multipart form, the file "pdf" and its bytes
ReadUpload ==
    /\ pc = "issue" /\ issue.at = "upload"
    /\ \E form \in {"too big", "no file", "unreadable", "read"} :
         issue' = IF form = "too big" THEN SendError("file-too-big")
                  ELSE IF form = "no file" THEN SendError("no-pdf-file")
                  ELSE IF form = "unreadable" THEN SendError("readfile")
                  ELSE [issue EXCEPT !.at = "extract"]
    /\ UNCHANGED <<pc, pipelineVars, walkVars, dateVars, flags, tmp, calls, ui>>

\* lines 146-151: verifyAndExtract on the upload
ExtractUpload ==
    /\ pc = "issue" /\ issue.at = "extract"
    /\ \E r \in {[failed |-> TRUE, attributeSets |-> <<>>]} \cup
                 {[failed |-> FALSE, attributeSets |-> sets] :
                     sets \in SeqsUpTo(IssueSets, MaxSets)} :
         issue' = IF r.failed THEN SendError("extract")
                  ELSE [issue EXCEPT !.at = "match", !.extracted = TRUE,
                                     !.attributeSets = r.attributeSets]
    /\ UNCHANGED <<pc, pipelineVars, walkVars, dateVars, flags, tmp, calls, ui>>

\* lines 153-170: every attribute set against the disclosed attributes; a
\* nil pointer dereference ends the handler without a response
MatchDisclosure ==
    /\ pc = "issue" /\ issue.at = "match"
    /\ LET m == MatchSets(issue.attributeSets, issue.initials, issue.familyname,
                          issue.dateofbirth)
       IN issue' = IF m = "" THEN [issue EXCEPT !.at = "sign"]
                   ELSE IF m = "panic"
                        THEN [issue EXCEPT !.at = "done", !.panicked = TRUE]
                   ELSE SendError(m)
    /\ UNCHANGED <<pc, pipelineVars, walkVars, dateVars, flags, tmp, calls, ui>>

\* lines 172-205: the credential requests, the private key, the signed
\* issuance JWT and its writing
SignIssuance ==
    /\ pc = "issue" /\ issue.at = "sign"
    /\ \E key \in {"unreadable", "does not sign", "signs"} :
         issue' =
            IF key # "signs" THEN SendError("signing")
            ELSE LET jwt == [credentials |-> issue.attributeSets,
                             disclose |-> <<issue.initials, issue.familyname,
                                            issue.dateofbirth>>]
                 IN [issue EXCEPT !.at = "done", !.signed = @ \o <<jwt>>,
                                  !.written = @ \o <<<<"jwt", jwt>>>>]
    /\ UNCHANGED <<pc, pipelineVars, walkVars, dateVars, flags, tmp, calls, ui>>

NextIssue ==
    ParseDisclosure \/ ReadUpload \/ ExtractUpload \/ MatchDisclosure \/ SignIssuance

SpecIssue == InitIssue /\ [][NextIssue]_vars

----------------------------------------------------------------------------
(* SpecUI: the web page.  The user changes the file field and clicks the   *)
(* buttons that are enabled; the answers to the page's requests and the    *)
(* results of the IRMA sessions arrive as callbacks, in any order.         *)

\* lines 17-31: updateUI sets both buttons from the file field and the
\* disclosure JWT held
updateUI(u) ==
    LET hasPDF == u.hasPDF
        hasName == u.disclosureJWT
        stage == IF ~hasPDF THEN 1 ELSE IF hasPDF /\ ~hasName THEN 2 ELSE 3
    IN [u EXCEPT !.disclosureDisabled = stage < 2, !.issueDisabled = stage < 3]

\* the page as loaded: no file chosen, no disclosure JWT, both buttons
\* disabled, nothing in flight
NewPage == [hasPDF |-> FALSE, disclosureJWT |-> FALSE,
            disclosureDisabled |-> TRUE, issueDisabled |-> TRUE,
            attrRequests |-> 0, verifySessions |-> 0,
            uploads |-> 0, issueSessions |-> 0]

InitUI ==
    /\ pc = "ui" /\ certDir = NoCertDir /\ PipelineIdle
    /\ WalkIdle /\ DateIdle
    /\ flags = [keepOutput |-> FALSE, enableDebug |-> FALSE]
    /\ tmp = <<>> /\ calls = <<>> /\ issue = <<>>
    /\ ui = NewPage

\* line 12: the user chooses a file, or clears the field
ChangeFile ==
    /\ pc = "ui"
    /\ \E chosen \in BOOLEAN : ui' = updateUI([ui EXCEPT !.hasPDF = chosen])
    /\ UNCHANGED <<pc, pipelineVars, walkVars, dateVars, flags, tmp, calls, issue>>

\* lines 40-45: a click on the enabled disclosure button asks the server
\* for a disclosure request
requestAttributes ==
    /\ pc = "ui" /\ ~ui.disclosureDisabled /\ ui.attrRequests < MaxInFlight
    /\ ui' = [ui EXCEPT !.attrRequests = @ + 1]
    /\ UNCHANGED <<pc, pipelineVars, walkVars, dateVars, flags, tmp, calls, issue>>

\* lines 45-59: the answer arrives; .done starts an IRMA disclosure
\* session, .fail only logs
AttributesAnswered ==
    /\ pc = "ui" /\ ui.attrRequests > 0
    /\ \E done \in BOOLEAN :
         /\ done => ui.verifySessions < MaxInFlight
         /\ ui' = IF done
               THEN [ui EXCEPT !.attrRequests = @ - 1, !.verifySessions = @ + 1]
               ELSE [ui EXCEPT !.attrRequests = @ - 1]
    /\ UNCHANGED <<pc, pipelineVars, walkVars, dateVars, flags, tmp, calls, issue>>

\* lines 48-56: the disclosure session ends: success keeps the JWT and
\* calls updateUI, cancel and error only log
DisclosureResult ==
    /\ pc = "ui" /\ ui.verifySessions > 0
    /\ \E success \in BOOLEAN :
         ui' = IF success
               THEN updateUI([ui EXCEPT !.verifySessions = @ - 1,
                                        !.disclosureJWT = TRUE])
               ELSE [ui EXCEPT !.verifySessions = @ - 1]
    /\ UNCHANGED <<pc, pipelineVars, walkVars, dateVars, flags, tmp, calls, issue>>

\* lines 62-73: a click on the enabled issue button disables it and posts
\* the file and the JWT
startIssue ==
    /\ pc = "ui" /\ ~ui.issueDisabled /\ ui.uploads < MaxInFlight
    /\ ui' = [ui EXCEPT !.issueDisabled = TRUE, !.uploads = @ + 1]
    /\ UNCHANGED <<pc, pipelineVars, walkVars, dateVars, flags, tmp, calls, issue>>

\* lines 74-76: the upload is answered with a JWT; an IRMA issuance session
\* starts
UploadDone ==
    /\ pc = "ui" /\ ui.uploads > 0 /\ ui.issueSessions < MaxInFlight
    /\ ui' = [ui EXCEPT !.uploads = @ - 1, !.issueSessions = @ + 1]
    /\ UNCHANGED <<pc, pipelineVars, walkVars, dateVars, flags, tmp, calls, issue>>

\* lines 87-95: the upload fails: the button is enabled again; on
\* "error:attributes-expired" the JWT is dropped and updateUI runs
UploadFailed ==
    /\ pc = "ui" /\ ui.uploads > 0
    /\ \E expired \in BOOLEAN :
         LET enabled == [ui EXCEPT !.uploads = @ - 1, !.issueDisabled = FALSE]
         IN ui' = IF expired
                  THEN updateUI([enabled EXCEPT !.disclosureJWT = FALSE])
                  ELSE enabled
    /\ UNCHANGED <<pc, pipelineVars, walkVars, dateVars, flags, tmp, calls, issue>>

\* lines 77-86: the issuance session ends in success, cancel or error: each
\* enables the button again
IssueResult ==
    /\ pc = "ui" /\ ui.issueSessions > 0
    /\ ui' = [ui EXCEPT !.issueSessions = @ - 1, !.issueDisabled = FALSE]
    /\ UNCHANGED <<pc, pipelineVars, walkVars, dateVars, flags, tmp, calls, issue>>

NextUI ==
    \/ ChangeFile \/ requestAttributes \/ AttributesAnswered \/ DisclosureResult
    \/ startIssue \/ UploadDone \/ UploadFailed \/ IssueResult

SpecUI == InitUI /\ [][NextUI]_vars

----------------------------------------------------------------------------
(* What the properties below speak about.                                  *)

o0 == doc.byteRange.v[1]
l0 == doc.byteRange.v[2]
o1 == doc.byteRange.v[3]
l1 == doc.byteRange.v[4]

\* the input as it was when verifyPDF was called
input == doc.of

VerifyCalled == pc \in {"called", "twice"}
VerifyOK == VerifyCalled /\ vres.outcome = "return" /\ vres.err = "nil"

\* 1-based index i of a buffer lies in the first / second declared range
InFirst(i) == o0 < i /\ i <= o0 + l0
InSecond(i) == o1 < i /\ i <= o1 + l1

FirstRange == SubSeq(input, o0 + 1, o0 + l0)
SecondRange == SubSeq(input, o1 + 1, o1 + l1)

RanVerification ==
    \E i \in 1..Len(ops) : ops[i] \in {"verifySignature", "verifyDetachedSignature"}

KnownSubFilters == {"adbe.pkcs7.sha1", "adbe.pkcs7.detached"}

----------------------------------------------------------------------------
(* Properties of verifyPDF, checked under SpecVerify.                      *)

\* C1 as stated: whenever verifyPDF succeeds, the returned buffer is
\* input[o0:o0+l0] immediately followed by input[o1:o1+l1] and nothing else.
C1_Concatenated ==
    VerifyOK => vres.bytes = FirstRange \o SecondRange

\* C1, amended: whenever verifyPDF succeeds, the returned buffer is the
\* first range up to where the second begins, then one zero byte for every
\* byte of the gap between the ranges, then the second range; it is the
\* plain concatenation of the two ranges when the first ends where the
\* second begins.
C1_RangesInPlace ==
    VerifyOK =>
        LET cut == IF o0 + l0 < o1 THEN o0 + l0 ELSE o1
        IN /\ vres.bytes = Zeros(o0) \o SubSeq(input, o0 + 1, cut)
                              \o Zeros(o1 - cut) \o SecondRange
           /\ (o0 + l0 = o1 => vres.bytes = FirstRange \o SecondRange)

\* a successful call on ranges with a gap between them
C1_GapWitness ==
    /\ VerifyOK /\ pc = "called"
    /\ l0 > 0 /\ l1 > 0 /\ o0 + l0 < o1
    /\ vres.bytes # FirstRange \o SecondRange

\* C2: whenever verifyPDF succeeds, the returned buffer has length o1+l1,
\* holds input[i] at every index inside one of the two ranges and a zero
\* byte (never the input's byte) at every index outside both, is a buffer
\* of its own and not the input buffer, and the input buffer holds what it
\* held before the call.
C2_FreshPositionalCopy ==
    VerifyOK =>
        /\ Len(vres.bytes) = o1 + l1
        /\ \A i \in 1..Len(vres.bytes) :
              vres.bytes[i] = IF InFirst(i) \/ InSecond(i) THEN input[i] ELSE 0
        /\ vres.buf # "inputPDF"
        /\ vres.buf \in DOMAIN heap
        /\ heap.inputPDF.bytes = input

\* a successful call whose input has a nonzero byte in the gap
C2_GapByteDropped ==
    /\ VerifyOK
    /\ \E i \in 1..Len(input) :
          ~InFirst(i) /\ ~InSecond(i) /\ input[i] = 1 /\ vres.bytes[i] = 0

\* the bytes the signature has to hold over
SignedBytes == Slice(heap.inputPDF, o0, o0 + l0) \o Slice(heap.inputPDF, o1, o1 + l1)

\* C3: for both sub-filters, when the envelope was produced over other
\* bytes than the ones in the two signed ranges, or its signer does not
\* chain to the trust store, verifyPDF returns an error and no buffer.
C3_TamperedOrUntrustedFails ==
    (/\ VerifyCalled
     /\ doc.subFilter \in KnownSubFilters
     /\ doc.envelope.kind # Unread
     /\ (doc.envelope.data.msg # SignedBytes \/ doc.envelope.signer \notin pool))
    => /\ vres.outcome = "return" /\ vres.err # "nil"
       /\ vres.buf = "nil" /\ vres.bytes = <<>>

\* a signature by a trusted signer over other bytes than the input's
C3_TamperedWitness ==
    /\ pc = "called"
    /\ doc.subFilter = "adbe.pkcs7.sha1"
    /\ doc.envelope.kind = "attached" /\ doc.envelope.signer \in pool
    /\ doc.envelope.data.msg # SignedBytes
    /\ vres.err = "hash doesn't match"

\* C4 as stated: for every ByteRange with o0 # 0 or o1+l1 # len(input),
\* verifyPDF returns the byte-range error, having done no slicing, hashing
\* or verification.
C4_InsaneRangeRejected ==
    (/\ VerifyCalled
     /\ doc.byteRange.kind = "ints"
     /\ (o0 # 0 \/ o1 + l1 # Len(input)))
    => /\ vres.outcome = "return"
       /\ vres.err = "byte ranges don't cover the entire PDF"
       /\ ops = <<"pdf.NewReader">>

\* C5 as stated: a SubFilter name other than the two known ones always
\* makes verifyPDF return the unimplemented-subfilter error, with no
\* verification run and no buffer returned.
C5_AlwaysUnsupported ==
    (VerifyCalled /\ doc.subFilter \in SubFilters \ KnownSubFilters)
    => /\ vres.outcome = "return" /\ vres.err = "unimplemented subfilter"
       /\ ~RanVerification /\ vres.buf = "nil"

\* C5, amended: for a SubFilter name other than the two known ones no
\* verification is run and no buffer is returned, and verifyPDF returns the
\* unimplemented-subfilter error once the ByteRange has been read, has
\* passed the sanity check and both ranges have been sliced; a ByteRange
\* that is missing, malformed or fails the sanity check is reported first.
C5_UnsupportedAtDispatch ==
    (VerifyCalled /\ doc.subFilter \in SubFilters \ KnownSubFilters)
    => /\ ~RanVerification /\ vres.buf = "nil" /\ vres.bytes = <<>>
       /\ ~(vres.outcome = "return" /\ vres.err = "nil")
       /\ (Len(ops) >= 3 /\ ops[3] = "slice after" /\ vres.outcome = "return"
              => vres.err = "unimplemented subfilter")
       /\ (doc.byteRange.kind = "ints" /\ ~ByteRangeSane(doc.byteRange.v, heap.inputPDF)
              => vres.err = "byte ranges don't cover the entire PDF")

\* an unknown SubFilter on a document whose ranges are in order
C5_UnsupportedWitness ==
    /\ pc = "called"
    /\ doc.subFilter = "adbe.x509.rsa_sha1"
    /\ vres.err = "unimplemented subfilter"

----------------------------------------------------------------------------
(* Properties of verifyAndExtract, checked under Spec.                     *)

\* the stage of verifyAndExtract an operation belongs to
StageOf(op) ==
    IF op \in {"Glob", "loadCertificate"} THEN 1
    ELSE IF op \in {"extractAttributes", "HTMLParse"} \cup {IOSteps[i] : i \in 1..Len(IOSteps)}
         THEN 3
    ELSE 2

Started(stage) == \E i \in 1..Len(ops) : StageOf(ops[i]) = stage

\* C6: no partial result.  When verifyPDF returns an error it returns a
\* nil buffer and has built none; when verifyAndExtract returns an error,
\* from certificate loading, verification or extraction, it returns a nil
\* attribute set.
C6_NoPartialResult ==
    /\ (vres.outcome = "return" /\ vres.err # "nil"
           => vres.buf = "nil" /\ vres.bytes = <<>> /\ "trustedPDF" \notin DOMAIN heap)
    /\ (result.outcome = "return" /\ result.err # NoError
           => result.isNil /\ result.attributeSet = <<>>)

\* extraction fails on the second page, after the first gave its attributes
C6_FailsAfterFirstPage ==
    /\ pc = "done"
    /\ result.err # NoError /\ result.err[1] = "extract attributes"
    /\ Len(result.err) = 3 /\ result.err[2] = "cannot find attribute"
    /\ result.isNil

\* C7: the operations of verifyAndExtract come stage by stage (trust
\* store, verification, rendering and extraction); rendering and extraction
\* start only after verifyPDF returned a buffer without error, are handed
\* the buffer verifyPDF built and never the input buffer, and nothing of a
\* later stage starts once a stage has failed.
C7_StagesInOrder ==
    /\ \A i, j \in 1..Len(ops) : i < j => StageOf(ops[i]) <= StageOf(ops[j])
    /\ (Started(2) =>
           /\ ~certDir.err
           /\ \A i \in 1..Len(certDir.paths) : certDir.paths[i] \in Certs
           /\ pool = {certDir.paths[i] : i \in 1..Len(certDir.paths)})
    /\ (Started(3) =>
           /\ vres.outcome = "return" /\ vres.err = "nil"
           /\ rendered.arg = vres.buf /\ rendered.arg # "inputPDF"
           /\ rendered.bytes \in {<<>>, vres.bytes}
           /\ (rendered.ran => rendered.bytes = vres.bytes))
    /\ (vres.outcome = "panic" \/ vres.err # "nil" => ~Started(3) /\ ~rendered.ran)
    /\ (result.err # NoError /\ result.err[1] \notin {"verify PDF", "extract attributes"}
           => ~Started(2) /\ ~Started(3))

\* a full run on an input with a gap: the renderer is given other bytes
\* than the ones uploaded
C7_RendererGotTrusted ==
    /\ pc = "done" /\ rendered.ran
    /\ result.err = NoError /\ result.attributeSet # <<>>
    /\ rendered.bytes # heap.inputPDF.bytes

\* C9: when the certificate directory lists no certificate file,
\* verifyAndExtract ends with the no-certificates error and never calls
\* verifyPDF; verifyPDF is never called with an empty pool.
C9_NoCertificatesIsFatal ==
    /\ (~certDir.err /\ Len(certDir.paths) = 0 /\ pc \in {"verify", "extract", "done"}
           => /\ pc = "done"
              /\ result.outcome = "return" /\ result.isNil
              /\ result.err = <<"no certificates found">>
              /\ ~Started(2))
    /\ (Started(2) => pool # {})

\* a call with an empty certificate directory
C9_EmptyDirWitness ==
    /\ pc = "done" /\ ~certDir.err /\ certDir.paths = <<>>
    /\ result.err = <<"no certificates found">>

----------------------------------------------------------------------------
(* Properties of extractSinglePage, checked under SpecPage.                *)

\* C10 as stated: every attribute map extractSinglePage returns holds each
\* mandatory key with a non-empty value; a marked page on which a mandatory
\* key is absent or empty is rejected.
C10_MandatoryNonEmpty ==
    (pc = "page done" /\ ~pres.isNil /\ pres.err = NoError)
    => \A k \in RequiredKeys : Has(pres.attributes, k) /\ pres.attributes[k] # <<>>

----------------------------------------------------------------------------
(* Properties of the page loop of extractAttributes, checked under         *)
(* SpecBatch.                                                              *)

HasContainer == FindContainer(rendered.body) # 0

\* the child nodes of the page container, in document order
ContainerNodes == rendered.body[FindContainer(rendered.body)].children

\* the page carries the marker in one of its elements
CarriesMarker(divs) == \E i \in 1..Len(divs) : IsMarker(divs[i])

\* the walk of the page took one of its elements for the marker
MarkerRecognised(divs) == WalkFrom(WalkStart, divs).validPage

\* the mandatory keys the page's rows do not give after translation
LackedKeys(divs) ==
    LET raw == WalkFrom(WalkStart, divs).rawAttributes
        attributes == TranslateIn(CHOOSE o \in RangeOrders(raw) : TRUE, raw, EmptyMap)
    IN {k \in RequiredKeys : ~Has(attributes, k)}

IsPageAt(i) == ContainerNodes[i].type = "element"
MarkedAt(i) == IsPageAt(i) /\ MarkerRecognised(ContainerNodes[i].divs)
CompleteAt(i) == MarkedAt(i) /\ LackedKeys(ContainerNodes[i].divs) = {}
LackingAt(i) == MarkedAt(i) /\ LackedKeys(ContainerNodes[i].divs) # {}

MarkedPositions ==
    SelectSeq([i \in 1..Len(ContainerNodes) |-> i], LAMBDA i : MarkedAt(i))

\* C13: when extraction succeeds, the returned sequence holds one attribute
\* map for every page whose marker was recognised, in the order of those
\* pages in the document, and nothing for unmarked pages and for nodes that
\* are no elements; a document without marked page gives success with an
\* empty, non-nil sequence.
C13_OneMapPerMarkedPageInOrder ==
    (pc = "batch done" /\ HasContainer) =>
        /\ (result.err = NoError =>
               /\ result.outcome = "return" /\ ~result.isNil
               /\ Len(result.attributeSet) = Len(MarkedPositions)
               /\ \A n \in 1..Len(MarkedPositions) :
                     \E r \in extractSinglePage(ContainerNodes[MarkedPositions[n]].divs) :
                        ~r.isNil /\ result.attributeSet[n] = r.attributes)
        /\ (MarkedPositions = <<>> =>
               result.err = NoError /\ result.attributeSet = <<>> /\ ~result.isNil)

\* two marked pages with different names around an unmarked page
C13_TwoOfThreeWitness ==
    /\ pc = "batch done" /\ HasContainer /\ Len(ContainerNodes) = 3
    /\ MarkedPositions = <<1, 3>> /\ IsPageAt(2)
    /\ Len(result.attributeSet) = 2
    /\ result.attributeSet[1]["familyname"] = <<"Jansen">>
    /\ result.attributeSet[2]["familyname"] = <<"Smit">>

----------------------------------------------------------------------------
(* Properties of extractSinglePage, checked under SpecPage.                *)

PageDone == pc = "page done"

\* C12: a page on which the walk recognised no marker gives no attribute
\* map and no error, whatever rows it holds: complete rows, or rows that
\* leave mandatory attributes missing.
C12_UnmarkedPageSkipped ==
    (PageDone /\ ~walk.validPage) => pres.isNil /\ pres.err = NoError

\* an unmarked page whose rows leave a mandatory attribute missing
C12_UnmarkedLackingWitness ==
    /\ PageDone /\ ~CarriesMarker(page)
    /\ LackedKeys(page) # {} /\ DOMAIN walk.rawAttributes # {}
    /\ pres.isNil /\ pres.err = NoError

\* " in " starts at 0-based position i of the string
InAt(s, i) == i >= 0 /\ i + 4 <= Len(s) /\ SubSeq(s, i + 1, i + 4) = <<" ", "i", "n", " ">>

\* the Instelling value the walk stored, if it stored one
HasInstelling == Has(walk.rawAttributes, Instelling)
InstellingValue == walk.rawAttributes[Instelling]

\* C15: the Instelling value is split at its last " in ": the trimmed text
\* before it is stored as institute and the trimmed text after it as city,
\* both or neither; a value without " in " stores neither, and a page with
\* a recognised marker is then rejected with a missing-attribute error.
C15_InstellingSplitAtLastIn ==
    (PageDone /\ HasInstelling) =>
        LET v == InstellingValue
            places == {i \in 0..Len(v) : InAt(v, i)}
        IN /\ (~pres.isNil =>
                  \E i \in places :
                     /\ \A j \in places : j <= i
                     /\ pres.attributes["institute"] = TrimSpace(SubSeq(v, 1, i))
                     /\ pres.attributes["city"] = TrimSpace(SubSeq(v, i + 5, Len(v))))
           /\ (places = {} /\ walk.validPage =>
                  /\ pres.isNil
                  /\ \E k \in RequiredKeys : pres.err = <<"cannot find attribute", k>>)

\* an accepted page whose Instelling value holds " in " twice
C15_TwoInsWitness ==
    /\ PageDone /\ HasInstelling /\ ~pres.isNil
    /\ Cardinality({i \in 0..Len(InstellingValue) : InAt(InstellingValue, i)}) = 2
    /\ pres.attributes["city"] = <<"C">>

----------------------------------------------------------------------------
(* Properties of parseDutchDate and parseDutchMonth, checked under         *)
(* SpecDates.                                                              *)

DatesParsed == pc = "dates" /\ dateRes.date # NotParsed /\ dateRes.month # NotParsed

\* the token is an integer in decimal notation, with or without sign
IsInteger(tok) ==
    LET ds == IF tok # <<>> /\ tok[1] \in {"+", "-"} THEN Tail(tok) ELSE tok
    IN ds # <<>> /\ \A i \in 1..Len(ds) : IsDigit(ds[i])

\* the integer the token denotes
IntegerValue(tok) ==
    IF tok[1] = "-" THEN -DigitsValue(Tail(tok))
    ELSE IF tok[1] = "+" THEN DigitsValue(Tail(tok))
    ELSE DigitsValue(tok)

IsMonthName(tok) == \E m \in 1..12 : MonthNames[m] = tok
MonthNumber(tok) == CHOOSE m \in 1..12 : MonthNames[m] = tok

NonZeroInteger(tok) == IsInteger(tok) /\ IntegerValue(tok) # 0

\* "D month YYYY" -> DD-MM-YYYY, anything else -> ""
DateAsStated(s) ==
    LET f == Fields(s)
    IN IF Len(f) = 3 /\ NonZeroInteger(f[1]) /\ IsMonthName(f[2]) /\ NonZeroInteger(f[3])
       THEN FormatPadded(IntegerValue(f[1]), 2) \o <<"-">>
            \o FormatPadded(MonthNumber(f[2]), 2) \o <<"-">>
            \o FormatPadded(IntegerValue(f[3]), 4)
       ELSE <<>>

\* "Month YYYY" -> 01-MM-YYYY, anything else -> ""
MonthAsStated(s) ==
    LET f == Fields(s)
    IN IF Len(f) = 2 /\ IsMonthName(ToLower(f[1])) /\ NonZeroInteger(f[2])
       THEN <<"0", "1", "-">> \o FormatPadded(MonthNumber(ToLower(f[1])), 2) \o <<"-">>
            \o FormatPadded(IntegerValue(f[2]), 4)
       ELSE <<>>

\* C14 as stated: parseDutchDate maps every string of three fields
\* "D month YYYY" (D and YYYY integers other than zero, month a key of the
\* table) to DD-MM-YYYY, zero padded, parseDutchMonth maps every string of
\* two fields "Month YYYY" to 01-MM-YYYY, and each gives the empty string
\* for every other string.
C14_DateGrammar ==
    DatesParsed =>
        /\ dateRes.date = DateAsStated(dateArg)
        /\ dateRes.month = MonthAsStated(dateArg)

----------------------------------------------------------------------------
(* More properties of extractSinglePage, checked under SpecPage.           *)

\* the walk stored a row with this label
HasRow(label) == Has(walk.rawAttributes, label)

\* every mandatory attribute has its row, the Instelling row with " in "
MandatoryRowsPresent ==
    /\ \A label \in {Achternaam, Voornamen, Geslacht, Geboortedatum, Opleiding,
                      Instelling} : HasRow(label)
    /\ HasRow(BehaaldIn) \/ HasRow(BehaaldOp)
    /\ \E i \in 0..Len(InstellingValue) : InAt(InstellingValue, i)

\* the text is no date of either grammar
NoDate(s) == DateAsStated(s) = <<>> /\ MonthAsStated(s) = <<>>

\* C16: a page with a recognised marker and a row for every mandatory
\* attribute is accepted also when its Geboortedatum row or its Behaald
\* in/op rows hold no parseable date: dateofbirth, or achieved, is then the
\* empty string.
C16_UnparseableDateAccepted ==
    (PageDone /\ walk.validPage /\ MandatoryRowsPresent) =>
        /\ ~pres.isNil /\ pres.err = NoError
        /\ (DateAsStated(walk.rawAttributes[Geboortedatum]) = <<>>
               => pres.attributes["dateofbirth"] = <<>>)
        /\ ((\A label \in {BehaaldIn, BehaaldOp} :
                 HasRow(label) => NoDate(walk.rawAttributes[label]))
               => pres.attributes["achieved"] = <<>>)

\* an accepted page whose birth date and achieved date are both no dates
C16_BothDatesEmptyWitness ==
    /\ PageDone /\ ~pres.isNil
    /\ walk.rawAttributes[Geboortedatum] = <<"x">>
    /\ HasRow(BehaaldIn) /\ NoDate(walk.rawAttributes[BehaaldIn])
    /\ pres.attributes["dateofbirth"] = <<>> /\ pres.attributes["achieved"] = <<>>


----------------------------------------------------------------------------
(* Properties of calls running side by side (SpecCalls).                   *)

\* the call holds temporary files of its own
HoldsFiles(p) == calls[p].at \in {"outfile", "written", "rendered", "read"}

FilesOf(p) == {calls[p].infile, calls[p].outfile}

\* what the call returns when it runs alone
AloneResult(pdfData) == AttributesOf(RenderOf(TrustedOf(pdfData)))

\* C17: calls of verifyAndExtract running side by side do not interfere:
\* each call has its own trust store, built from the certDir set at startup,
\* sees the keepOutput set at startup, holds a pair of temporary files no
\* other call holds, and reads back and returns what its own upload gives
\* when the call runs alone, whatever the other call does in between.
C17_CallsDoNotInterfere ==
    pc = "calls" =>
        \A p \in Procs :
            /\ calls[p].at # "idle" => calls[p].pool = LoadTrustStore(certDir).pool
            /\ HoldsFiles(p) =>
                  /\ calls[p].keepOutput = flags.keepOutput
                  /\ FilesOf(p) \subseteq DOMAIN tmp
                  /\ \A q \in Procs \ {p} :
                        HoldsFiles(q) => FilesOf(p) \cap FilesOf(q) = {}
            /\ calls[p].at \in {"read", "returned"} =>
                  calls[p].result = AloneResult(calls[p].pdfData)

\* one call has read its result back while the other, given another
\* upload, has its own files in tmpDir and has run the renderer
C17_OverlappingCallsWitness ==
    /\ pc = "calls"
    /\ calls["first"].at = "read" /\ calls["second"].at = "rendered"
    /\ calls["first"].pdfData # calls["second"].pdfData
    /\ calls["first"].result = AloneResult(calls["first"].pdfData)



\* the gender the Geslacht row's value stands for
StatedGender ==
    LET raw == walk.rawAttributes[Geslacht]
    IN IF raw = <<"M", "a", "n">> THEN <<"male">>
       ELSE IF raw = <<"V", "r", "o", "u", "w">> THEN <<"female">>
       ELSE <<"unknown">>

\* C18: in every returned map gender is male, female or unknown: male for
\* the raw value "Man", female for "Vrouw", unknown for every other raw
\* value; and a page with a Geslacht row is never refused for a missing
\* gender.
C18_GenderIsMaleFemaleOrUnknown ==
    PageDone =>
        /\ ~pres.isNil =>
              /\ HasRow(Geslacht)
              /\ pres.attributes["gender"] = StatedGender
              /\ pres.attributes["gender"] \in {<<"male">>, <<"female">>, <<"unknown">>}
        /\ HasRow(Geslacht) => pres.err # <<"cannot find attribute", "gender">>

\* an accepted page whose Geslacht row holds "Vrouw"
C18_FemaleWitness ==
    /\ PageDone /\ ~pres.isNil
    /\ walk.rawAttributes[Geslacht] = <<"V", "r", "o", "u", "w">>
    /\ pres.attributes["gender"] = <<"female">>


\* lastKey when the walk reaches the page's i-th element
LastKeyBefore(i) == WalkFrom(WalkStart, SubSeq(page, 1, i - 1)).lastKey

\* C19: a page is flagged valid as soon as the walk has visited an element
\* whose only child is a text equal to the marker, wherever in the page the
\* element stands, directly after an Instelling row included.
C19_MarkerAnywhereFlagsPage ==
    \A i \in 1..elNo : IsMarker(page[i]) => walk.validPage


\* the walk visits the element, one with exactly one text child
VisitsSingleText ==
    pc = "walking" /\ elNo' = elNo + 1 /\ IsSingleText(page[elNo + 1])

\* C20: when the walk visits an element with exactly one text child and the
\* row stored last is Instelling, the element's trimmed text is appended,
\* after one space, to the stored Instelling value and no raw attribute is
\* created; when lastKey is anything else, the element changes no raw
\* attribute.
C20_ContinuationOnlyAfterInstelling ==
    [][VisitsSingleText =>
          IF walk.lastKey = Instelling
          THEN /\ DOMAIN walk'.rawAttributes = DOMAIN walk.rawAttributes
               /\ walk'.rawAttributes =
                     [walk.rawAttributes EXCEPT ![Instelling] =
                         @ \o <<" ">> \o TrimSpace(page[elNo + 1][1].value)]
          ELSE walk'.rawAttributes = walk.rawAttributes]_vars

\* the line " Z" was visited directly after the Instelling row and the
\* stored value now ends in " Z"; and on the same page a line of text was
\* visited after another row
C20_ContinuedWitness ==
    /\ pc = "walking" /\ elNo >= 1
    /\ page[elNo] = Single(<<" ", "Z">>)
    /\ LastKeyBefore(elNo) = Instelling
    /\ IsRow(page[elNo - 1])
    /\ walk.rawAttributes[Instelling] = page[elNo - 1][3].value \o <<" ", "Z">>
    /\ \E i \in 2..(elNo - 1) :
          IsSingleText(page[i]) /\ LastKeyBefore(i) \notin {<<>>, Instelling}


\* the walk's two states: Idle, and AwaitingContinuation of the row stored
\* last
Idle(st) == st.lastKey = <<>>
AwaitingContinuation(st) == st.lastKey # <<>>

\* the walk visits the page's next element
Visits == pc = "walking" /\ elNo' = elNo + 1

\* the element is taken as a continuation of the row stored last
Continues(st, children) == st.lastKey = Instelling /\ IsSingleText(children)

\* C21: the walk is a machine of two states.  It comes to await a
\* continuation only by storing a label/value row; on an element with one
\* text child after an Instelling row it appends the text and goes on
\* awaiting; on the first element that is neither such a continuation nor a
\* row it is Idle again, and Idle it appends no element with one text child.
C21_WalkIsTwoStateMachine ==
    [][Visits =>
          LET el == page[elNo + 1]
          IN /\ (AwaitingContinuation(walk') /\ walk'.lastKey # walk.lastKey)
                   => IsRow(el)
             /\ IsRow(el) /\ ~Continues(walk, el)
                   => walk'.lastKey = TrimSpace(el[1].value)
             /\ Continues(walk, el)
                   => /\ walk'.lastKey = walk.lastKey
                      /\ walk'.rawAttributes[Instelling] =
                            walk.rawAttributes[Instelling] \o <<" ">>
                               \o TrimSpace(el[1].value)
             /\ (~Continues(walk, el) /\ ~IsRow(el)) => Idle(walk')
             /\ (Idle(walk) /\ IsSingleText(el))
                   => Idle(walk') /\ walk'.rawAttributes = walk.rawAttributes]_vars

\* after the Instelling row the walk met an element without text and then a
\* line of text: the line was not appended
C21_BackToIdleWitness ==
    /\ pc = "walking" /\ elNo >= 3
    /\ IsRow(page[elNo - 2]) /\ TrimSpace(page[elNo - 2][1].value) = Instelling
    /\ page[elNo - 1] = <<Elem>>
    /\ IsSingleText(page[elNo])
    /\ Idle(walk)
    /\ walk.rawAttributes[Instelling] = TrimSpace(page[elNo - 2][3].value)


\* the rows the walk has visited, and what each stores
RowsVisited == {i \in 1..elNo : IsRow(page[i])}
RowLabel(i) == TrimSpace(page[i][1].value)
RowValue(i) == TrimSpace(page[i][3].value)
LastRowOf(label) == SetMax({i \in RowsVisited : RowLabel(i) = label})

StartsWith(s, t) == Len(s) >= Len(t) /\ SubSeq(s, 1, Len(t)) = t

\* the raw attributes are the visited rows' trimmed labels, each with the
\* trimmed value of the last row that has the label (for Instelling,
\* followed by what was appended to it)
LastRowKept ==
    /\ DOMAIN walk.rawAttributes = {RowLabel(i) : i \in RowsVisited}
    /\ \A label \in DOMAIN walk.rawAttributes :
          LET value == RowValue(LastRowOf(label))
          IN IF label = Instelling
             THEN StartsWith(walk.rawAttributes[label], value)
             ELSE walk.rawAttributes[label] = value

\* C22 as stated: every row stores its trimmed value under its trimmed
\* label, of several rows with one label the last one's value is kept, and
\* lastKey always names the row stored most recently.
C22_LastKeyAlwaysNamesLastRow ==
    /\ LastRowKept
    /\ RowsVisited # {} => walk.lastKey = RowLabel(SetMax(RowsVisited))

\* C22, amended: every row stores its trimmed value under its trimmed
\* label, of several rows with one label the last one's value is kept, and
\* lastKey names the row stored most recently directly after the row and
\* whenever lastKey is not empty.
C22_LastKeyNamesLastRowUntilCleared ==
    /\ LastRowKept
    /\ elNo \in RowsVisited => walk.lastKey = RowLabel(elNo)
    /\ walk.lastKey # <<>> =>
          RowsVisited # {} /\ walk.lastKey = RowLabel(SetMax(RowsVisited))

\* the page's second row with the label Achternaam, written with spaces
\* around label and value, has just been stored over the first
C22_SecondRowWitness ==
    /\ pc = "walking" /\ elNo >= 2 /\ IsRow(page[elNo])
    /\ page[elNo][1].value = <<" ">> \o Achternaam
    /\ \E i \in 1..(elNo - 1) : IsRow(page[i]) /\ RowLabel(i) = Achternaam
    /\ walk.rawAttributes[Achternaam] = <<"Smit">>
    /\ walk.lastKey = Achternaam


\* the date a field's text stands for when the month-only grammar is tried
\* after the full-date grammar has failed
DateWithFallback(s) ==
    IF DateAsStated(s) # <<>> THEN DateAsStated(s) ELSE MonthAsStated(s)

\* the achieved date of the returned map comes from a Behaald row by the
\* full-date grammar, and by the month-only grammar when that fails
AchievedHasFallback ==
    \E label \in {BehaaldIn, BehaaldOp} :
        /\ HasRow(label)
        /\ pres.attributes["achieved"] = DateWithFallback(walk.rawAttributes[label])

\* C23: in a returned map both dates, dateofbirth from Geboortedatum and
\* achieved from Behaald in / Behaald op, are read by the full-date grammar
\* and, when that fails, by the month-only grammar "MonthName YYYY", which
\* gives 01-MM-YYYY.
C23_FallbackForBothDates ==
    (PageDone /\ ~pres.isNil) =>
        /\ pres.attributes["dateofbirth"] =
              DateWithFallback(walk.rawAttributes[Geboortedatum])
        /\ AchievedHasFallback


\* the token is the name written with some of its letters as capitals
IsCapitalisationOf(tok, name) ==
    /\ Len(tok) = Len(name)
    /\ \A i \in 1..Len(name) :
          \/ tok[i] = name[i]
          \/ \E c \in 1..Len(Capitals) : Smalls[c] = name[i] /\ Capitals[c] = tok[i]

IsCapitalisedMonthName(tok) ==
    \E m \in 1..12 : IsCapitalisationOf(tok, MonthNames[m])

\* C24: parseDutchMonth takes a month name in any capitalisation and gives
\* the first day of that month; parseDutchDate takes the month name only in
\* the table's lower-case spelling and gives the empty string for every
\* other capitalisation.
C24_MonthCaseRules ==
    DatesParsed =>
        LET f == Fields(dateArg)
        IN /\ (Len(f) = 2 /\ IsCapitalisedMonthName(f[1]) /\ NonZeroInteger(f[2]))
                 => \E m \in 1..12 :
                       /\ IsCapitalisationOf(f[1], MonthNames[m])
                       /\ StartsWith(dateRes.month,
                                      <<"0", "1", "-">> \o FormatPadded(m, 2) \o <<"-">>)
           /\ (Len(f) = 3 /\ NonZeroInteger(f[1]) /\ NonZeroInteger(f[3])
                 /\ IsCapitalisedMonthName(f[2]))
                 => (dateRes.date # <<>> <=> IsMonthName(f[2]))

\* "3 Maart 1990", with a capital, was refused by parseDutchDate
C24_CapitalRefusedWitness ==
    /\ DatesParsed
    /\ Fields(dateArg) = <<<<"3">>, <<"M", "a", "a", "r", "t">>, <<"1", "9", "9", "0">>>>
    /\ dateRes.date = <<>>


----------------------------------------------------------------------------
(* More properties of extractAttributes (SpecBatch).                       *)

BatchDone == pc = "batch done"

\* the children of <body> with the id "page-container"
ContainersOf(body) == {i \in 1..Len(body) : body[i].id = "page-container"}

\* C25: when no child of <body> has the id "page-container",
\* extractAttributes fails with "cannot find page container" and returns
\* nothing of any page; when several children have the id, what it returns
\* is what the pages of the first of them in document order give.
C25_FirstContainerOrError ==
    BatchDone =>
        LET found == ContainersOf(rendered.body)
        IN IF found = {}
           THEN /\ result.isNil /\ result.attributeSet = <<>>
                /\ result.err = <<"cannot parse HTML: cannot find page container">>
           ELSE LET first == CHOOSE i \in found : \A j \in found : i <= j
                IN result \in ExtractPages(rendered.body[first].children)

\* of two page containers the first holds the page of Jansen and the second
\* the page of Smit: the one map returned is Jansen's
C25_TwoContainersWitness ==
    /\ BatchDone /\ Cardinality(ContainersOf(rendered.body)) = 2
    /\ rendered.body[1].children = <<PageElement(BasePage)>>
    /\ rendered.body[3].children = <<PageElement(SmitPage)>>
    /\ ~result.isNil /\ Len(result.attributeSet) = 1
    /\ result.attributeSet[1]["familyname"] = <<"Jansen">>


----------------------------------------------------------------------------
(* More properties of verifyPDF (SpecVerify).                              *)

\* C26: for every ByteRange that passes the sanity check, o0 = 0 and
\* o1+l1 = len(input), the slices input[o0 : o0+l0] and input[o1 : o1+l1]
\* lie inside the input and verifyPDF ends by returning a buffer or an
\* error; it never faults on an index out of range.
C26_SaneRangeNeverFaults ==
    (/\ VerifyCalled
     /\ doc.byteRange.kind = "ints"
     /\ o0 = 0 /\ o1 + l1 = Len(input))
    => /\ vres.outcome = "return"
       /\ 0 <= l0 /\ o0 + l0 <= Len(input)
       /\ 0 <= o1 /\ o1 <= o1 + l1


----------------------------------------------------------------------------
(* Determinism of extractSinglePage (SpecPage).                            *)

\* C27: what extractSinglePage returns is a function of the page alone:
\* every run on the page returns what this run returned, the same map or
\* the same error, whatever the order in which the raw attributes and the
\* table of required attributes are ranged over.
C27_ResultDependsOnPageOnly ==
    PageDone => \A other \in extractSinglePage(page) : other = pres


----------------------------------------------------------------------------
(* The shape of the parsers' results (SpecDates).                          *)

\* DD-MM-YYYY: ten characters, digits but for the two hyphens, the month
\* between 01 and 12
HasDateShape(s) ==
    /\ Len(s) = 10
    /\ s[3] = "-" /\ s[6] = "-"
    /\ \A i \in {1, 2, 4, 5, 7, 8, 9, 10} : IsDigit(s[i])
    /\ DigitsValue(SubSeq(s, 4, 5)) \in 1..12

\* C28: every string parseDutchDate or parseDutchMonth returns, other than
\* the empty one, has the shape DD-MM-YYYY, whatever integers the day and
\* year tokens are: negative, days above 99, years above 9999.
C28_ResultHasDateShape ==
    DatesParsed =>
        /\ dateRes.date = <<>> \/ HasDateShape(dateRes.date)
        /\ dateRes.month = <<>> \/ HasDateShape(dateRes.month)


----------------------------------------------------------------------------
(* Properties of the issue endpoint (SpecIssue).                           *)

IssueDone == pc = "issue" /\ issue.at = "done"

\* the disclosure holds an attribute of each of the three kinds
DisclosedAll ==
    /\ Has(issue.disclosed, "idin.initials")
    /\ Has(issue.disclosed, "idin.familyname") \/ Has(issue.disclosed, "surfnet.familyname")
    /\ Has(issue.disclosed, "idin.dateofbirth")

DisclosedFamilyName ==
    IF Has(issue.disclosed, "idin.familyname") THEN issue.disclosed["idin.familyname"]
    ELSE issue.disclosed["surfnet.familyname"]

\* the attribute set is the disclosed person's
SetMatches(attributes) ==
    /\ DisclosedAll
    /\ DisclosedFamilyName =
          (IF Has(attributes, "prefix")
           THEN attributes["prefix"] \o <<" ">> \o attributes["familyname"]
           ELSE attributes["familyname"])
    /\ attributes["firstname"] # <<>> /\ issue.disclosed["idin.initials"] # <<>>
    /\ attributes["firstname"][1] = issue.disclosed["idin.initials"][1]
    /\ attributes["dateofbirth"] = issue.disclosed["idin.dateofbirth"]

WroteJwt == \E i \in 1..Len(issue.written) : issue.written[i][1] = "jwt"

OneErrorNothingSigned ==
    /\ Len(issue.written) = 1 /\ issue.written[1][1] = "error:"
    /\ issue.signed = <<>>

\* C29: apiIssue writes a signed issuance JWT only if the disclosure JWT
\* parsed, verifyAndExtract succeeded and every attribute set matches the
\* disclosed family name, first initial and date of birth; in every other
\* case, also when the disclosure lacks one of the three attributes, it
\* answers with exactly one "error:<code>" response and signs nothing.
C29_IssuesOnlyOnMatch ==
    IssueDone =>
        /\ IF WroteJwt
           THEN /\ issue.parsed /\ issue.extracted
                /\ \A i \in 1..Len(issue.attributeSets) :
                      SetMatches(issue.attributeSets[i])
                /\ Len(issue.written) = 1
           ELSE OneErrorNothingSigned
        /\ (issue.parsed /\ ~DisclosedAll) => OneErrorNothingSigned


----------------------------------------------------------------------------
(* Properties of the web page (SpecUI).                                    *)

\* issue requests started by startIssue and not yet finished
IssuesInFlight == ui.uploads + ui.issueSessions

\* C30: after any interleaving of file changes, disclosure results, clicks
\* and callbacks, the issue button is enabled only if a PDF is chosen and a
\* disclosure JWT is held, and it is disabled as long as an issue request
\* is in flight, so that at most one is in flight at a time.
C30_IssueButtonGuarded ==
    pc = "ui" =>
        /\ ~ui.issueDisabled => ui.hasPDF /\ ui.disclosureJWT
        /\ IssuesInFlight > 0 => ui.issueDisabled
        /\ IssuesInFlight <= 1

====
